---- MODULE Spec2Model ----
(***************************************************************************)
(* FrameIQ chat agent: the supervisor / retriever / chat / enricher graph, *)
(* its driver run_agent_chat (retry wrapper, fallback replies, session     *)
(* memory) and the sliding-window rate limiter.                            *)
(*                                                                         *)
(* A message text is represented by the set of listed phrases that occur   *)
(* in its lower-cased content, so `any(k in text for k in KEYS)` is        *)
(* `text \cap KEYS # {}`.  The phrase "ok" stands for words that are in no *)
(* keyword list; the empty set is the empty string.                        *)
(***************************************************************************)
EXTENDS Integers, Sequences, FiniteSets, TLC

VARIABLES
    pc,                       \* position of the turn in run_agent_chat
    user_message,             \* run_agent_chat's user_message argument
    attempt,                  \* retry_on_error: index of the running attempt
    graph_instance,           \* graph.py _graph_instance is not None
    messages,                 \* GraphState.messages of the session's thread
    next_step,                \* GraphState.next_step
    user_intent,              \* GraphState.user_intent
    retrieved_context,        \* GraphState.retrieved_context
    agent_messages,           \* retriever_node: the tool results in result["messages"]
    final_response_metadata,  \* GraphState.final_response_metadata
    steps,                    \* graph super-steps executed in this invoke
    prev,                     \* the stage that ran last in this invoke
    classifier_calls,         \* structured-output calls made by supervisor_node
    candidates,               \* what extract_media_with_llm returned (enricher)
    lookups,                  \* requests.get calls made by enricher_node
    result,                   \* what run_agent_chat returned to its caller
    raised,                   \* run_agent_chat raised to its caller
    failure,                  \* the stage whose LLM call raised in this turn, and str(e)
    conv,                     \* memory.py _conversation_cache[session_id]
    clock,                    \* datetime.now() of memory.py, in hours
    requests,                 \* RateLimiter.requests: identifier -> timestamps
    now,                      \* datetime.now() of rate_limiter.py, in seconds
    last,                     \* the last limiter call and what it returned
    events,                   \* agent_chat_stream: the SSE events sent so far
    mem,                      \* memory.py: the last call on the session's record
    follows,                  \* user_follow: (follower, following) -> is_active of its rows
    counts,                   \* user: id -> followers_count, following_count
    treq,                     \* toggle_follow requests in flight: what each has read
    tlast,                    \* the last toggle_follow response
    lthreads,                 \* threads inside RateLimiter.is_allowed: their locals
    admitted,                 \* the clock readings of the is_allowed calls that returned True
    wrapper,                  \* retry_on_error.wrapper: its locals, and what func and sleep saw
    watches,                  \* tv_episode_watch: one user's rows for one show
    progress,                 \* tv_show_progress: that user's row for the show
    tvlast                    \* the last tv_tracking response

vars == <<pc, user_message, classifier_calls, attempt, graph_instance, messages, next_step, user_intent,
          retrieved_context, agent_messages, final_response_metadata, steps, prev, candidates,
          lookups, result, raised, failure, conv, clock, requests, now, last, events,
          mem, follows, counts, treq, tlast, lthreads, admitted,
          wrapper, watches, progress, tvlast>>

turnVars == <<pc, user_message, classifier_calls, attempt, graph_instance, messages, next_step, user_intent,
              retrieved_context, agent_messages, final_response_metadata, steps, prev,
              candidates, lookups, result, raised, failure, conv, clock>>

limiterVars == <<requests, now, last>>

streamVars == <<events>>

(* What the specifications of the graph, the limiter and the stream leave  *)
(* alone.                                                                  *)
memVars == <<mem>>

socialVars == <<follows, counts, treq, tlast>>

threadVars == <<lthreads, admitted>>

retryVars == <<wrapper>>

tvVars == <<watches, progress, tvlast>>

extVars == <<memVars, socialVars, threadVars, retryVars, tvVars>>

None == "None"

Last(s) == s[Len(s)]

(***************************************************************************)
(* agents/nodes.py: keyword lists of supervisor_node                       *)
(***************************************************************************)
recommendation_keywords ==
    {"recommend", "suggest", "check out", "might enjoy", "here are", "similar to"}

explanation_keywords ==
    {"film noir", "genre", "style", "technique", "director", "cinematography"}

greeting_response_keywords ==
    {"i'd be happy", "i'm here to help", "what can i help"}

user_recommendation_keywords ==
    {"suggest", "recommend", "like", "similar", "trending", "recent", "new",
     "what should i watch"}

user_question_keywords ==
    {"what is", "who", "when", "where", "how", "explain", "tell me about"}

user_greeting_keywords ==
    {"hello", "hi", "hey", "thanks", "thank you", "bye", "goodbye"}

HumanMessage(c, t) == [role |-> "human", content |-> c, turn |-> t]
AIMessage(c, t) == [role |-> "ai", content |-> c, turn |-> t]

has_recommendations(m) == m.content \cap recommendation_keywords # {}
is_explanation(m) == m.content \cap explanation_keywords # {}
is_greeting_response(m) == m.content \cap greeting_response_keywords # {}

(* supervisor_node with the question keywords tested before the           *)
(* recommendation keywords.                                                *)
KeywordRoute_QuestionFirst(msgs) ==
    LET m == Last(msgs)
        ai == Len(msgs) >= 2 /\ m.role = "ai"
        human == Len(msgs) >= 1 /\ m.role = "human"
        rec == m.content \cap {"recommend", "suggest", "check out", "might enjoy",
                               "here are", "similar to"} # {}
        expl == m.content \cap {"film noir", "genre", "style", "technique",
                                "director", "cinematography"} # {}
        greet == m.content \cap {"i'd be happy", "i'm here to help",
                                 "what can i help"} # {}
    IN  IF ai /\ rec /\ ~greet THEN "enricher"
        ELSE IF ai /\ (expl \/ greet) /\ ~rec THEN "end"
        ELSE IF human /\ m.content \cap {"what is", "who", "when", "where", "how",
                                          "explain", "tell me about"} # {}
        THEN "chat"
        ELSE IF human /\ m.content \cap {"suggest", "recommend", "like", "similar",
                                          "trending", "recent", "new",
                                          "what should i watch"} # {}
        THEN "retriever"
        ELSE IF human /\ m.content \cap {"hello", "hi", "hey", "thanks", "thank you",
                                          "bye", "goodbye"} # {}
        THEN "chat"
        ELSE "llm"

(* The route the keyword rules of supervisor_node return, "llm" when the   *)
(* code falls through to the structured-output call.                       *)
KeywordRoute(msgs) ==
    IF /\ Len(msgs) >= 2
       /\ Last(msgs).role = "ai"
       /\ has_recommendations(Last(msgs))
       /\ ~is_greeting_response(Last(msgs))
    THEN "enricher"
    ELSE IF /\ Len(msgs) >= 2
            /\ Last(msgs).role = "ai"
            /\ (is_explanation(Last(msgs)) \/ is_greeting_response(Last(msgs)))
            /\ ~has_recommendations(Last(msgs))
    THEN "end"
    ELSE IF /\ Len(msgs) >= 1
            /\ Last(msgs).role = "human"
            /\ Last(msgs).content \cap user_recommendation_keywords # {}
    THEN "retriever"
    ELSE IF /\ Len(msgs) >= 1
            /\ Last(msgs).role = "human"
            /\ Last(msgs).content \cap user_question_keywords # {}
    THEN "chat"
    ELSE IF /\ Len(msgs) >= 1
            /\ Last(msgs).role = "human"
            /\ Last(msgs).content \cap user_greeting_keywords # {}
    THEN "chat"
    ELSE "llm"

(* intent_map.get(next_step, "end") *)
intent_map(route) ==
    CASE route = "retriever" -> "search"
      [] route = "chat" -> "chat"
      [] route = "enricher" -> "enrich"
      [] OTHER -> "end"

(* SupervisorDecision.next_step is a plain str: the structured-output call *)
(* can return any of the four documented routes or any other string.       *)
LLMDecisions == {"retriever", "chat", "enricher", "end", "other"}

(* supervisor_node: the (next_step, user_intent) it returns; `decision` is *)
(* the structured-output reply, read only on the fall-through path.        *)
supervisor_node(msgs, decision) ==
    LET k == KeywordRoute(msgs)
        route == IF k = "llm" THEN decision ELSE k
    IN  [next_step |-> route,
         user_intent |-> IF k = "llm" THEN intent_map(route)
                         ELSE CASE k = "enricher" -> "enrich"
                                [] k = "end" -> "end"
                                [] k = "retriever" -> "search"
                                [] OTHER -> "chat",
         used_llm |-> (k = "llm")]

(* should_continue and the path map of add_conditional_edges *)
PathMap == {"retriever", "chat", "enricher", "__end__"}

should_continue(ns) == IF ns = "end" THEN "__end__" ELSE ns

(***************************************************************************)
(* agents/tools.py: the three tools of the retriever agent                 *)
(***************************************************************************)
(* What the call a tool wraps does: it raises, returns nothing, returns n  *)
(* results, returns a value the formatting code cannot read ("malformed")  *)
(* or, for the trending tool, finds no API key ("no_key").                 *)
Underlying(k, n) == [kind |-> k, n |-> n]

(* A dict is represented by the set of its keys. *)
ToolValue(shape, items) == [raised |-> FALSE, shape |-> shape, items |-> items]

(* A tool with no try/except around a raising call. *)
ToolRaises == [raised |-> TRUE, shape |-> "none", items |-> <<>>]

(* search_vector_db: [] for no results, the formatted list, or a list of   *)
(* one dict with an error key.                                             *)
search_vector_db(u) ==
    CASE u.kind = "none" -> ToolValue("list", <<>>)
      [] u.kind = "results" ->
            ToolValue("list", [i \in 1..u.n |->
                {"id", "title", "year", "genres", "rating", "media_type",
                 "overview", "similarity"}])
      [] OTHER -> ToolValue("list", <<{"error"}>>)

(* search_tmdb without its try/except. *)
search_tmdb_Unguarded(u) ==
    CASE u.kind = "none" -> ToolValue("dict", <<{"error", "suggestion"}>>)
      [] u.kind = "results" ->
            ToolValue("dict", <<{"title", "year", "overview", "media_type", "tmdb_id"}>>)
      [] OTHER -> ToolRaises

(* search_tmdb: the metadata dict, or a dict with an error key. *)
search_tmdb(u) ==
    CASE u.kind = "none" -> ToolValue("dict", <<{"error", "suggestion"}>>)
      [] u.kind = "results" ->
            ToolValue("dict", <<{"title", "year", "overview", "media_type", "tmdb_id"}>>)
      [] OTHER -> ToolValue("dict", <<{"error"}>>)

(* search_tmdb_trending: the list of trending items, or a list of one dict *)
(* with an error key.                                                      *)
search_tmdb_trending(u) ==
    CASE u.kind = "no_key" -> ToolValue("list", <<{"error"}>>)
      [] u.kind = "none" -> ToolValue("list", <<>>)
      [] u.kind = "results" ->
            ToolValue("list", [i \in 1..u.n |->
                {"title", "year", "overview", "rating", "media_type", "popularity"}])
      [] OTHER -> ToolValue("list", <<{"error"}>>)

RETRIEVER_TOOLS == {"search_vector_db", "search_tmdb", "search_tmdb_trending"}

(* The declared return type of each tool. *)
ResultShape(tool) == IF tool = "search_tmdb" THEN "dict" ELSE "list"

(* One tool call of the agent: the tool and what its wrapped call does. *)
ToolCall(tool, u) == [tool |-> tool, outcome |-> u]

(* The tool result the agent gets back for one call. *)
CallTool(call) ==
    LET v == CASE call.tool = "search_vector_db" -> search_vector_db(call.outcome)
               [] call.tool = "search_tmdb" -> search_tmdb(call.outcome)
               [] OTHER -> search_tmdb_trending(call.outcome)
    IN  [tool |-> call.tool, outcome |-> call.outcome, raised |-> v.raised,
         shape |-> v.shape, items |-> v.items]

(***************************************************************************)
(* agents/nodes.py: enricher_node                                          *)
(***************************************************************************)
(* A candidate is a dict of extract_media_with_llm: title "" and year 0    *)
(* stand for a missing (falsy) title and year.                             *)
Media(t, y) == [title |-> t, year |-> y]

(* What extract_media_with_llm can do for one reply: raise, or return the  *)
(* movie list and the TV list.                                             *)
Extraction(r, m, t) == [raised |-> r, movies |-> m, tv_shows |-> t]

Extractions ==
    { Extraction(TRUE, <<>>, <<>>),
      Extraction(FALSE, <<>>, <<>>),
      Extraction(FALSE, <<Media("", 0)>>, <<Media("Dark", 2017)>>),
      Extraction(FALSE, <<Media("Heat", 0), Media("Tenet", 2020)>>, <<>>),
      Extraction(FALSE, <<Media("Inception", 2010)>>, <<Media("Lost", 0)>>) }

(* Release dates are days; NoDate is a result without a release date.  The *)
(* recent-release window and the length of a year are scaled down.         *)
NoDate == -1
Today == 10
RecentWindow == 2
MaxAhead == 2
DaysPerYear == 4

(* is_upcoming_release: the date is strictly in the future. *)
is_upcoming_release(release) == release # NoDate /\ release > Today

(* is_recent_release: the release is at most RecentWindow days old; the    *)
(* test does not look at whether the date is still to come.                *)
is_recent_release(release) == release # NoDate /\ Today - release <= RecentWindow

(* The release date of results[0] in a turn: an old, a recent and an       *)
(* upcoming one.                                                           *)
ReleaseDates == {Today - RecentWindow - 1, Today, Today + 1}

(* Every release date results[0] can have. *)
AllReleaseDates == {NoDate} \cup ((Today - RecentWindow - 1)..(Today + MaxAhead))

(* release_date[:4] if release_date else "Unknown" *)
release_year(release) ==
    IF release = NoDate THEN "Unknown" ELSE ToString(release \div DaysPerYear)

(* What the TMDb search does for one candidate: the first requests.get     *)
(* (with the year when there is one) and the retry without the year.       *)
Outcome(f, s, r) == [first |-> f, second |-> s, release |-> r]

OutcomesOver(media, dates) ==
    IF media.title = "" THEN {Outcome("skip", "skip", NoDate)}
    ELSE {Outcome("hit", "skip", r) : r \in dates}
         \cup {Outcome("raise", "skip", NoDate)}
         \cup (IF media.year = 0
               THEN {Outcome("empty", "skip", NoDate)}
               ELSE {Outcome("empty", "hit", r) : r \in dates}
                    \cup {Outcome("empty", "empty", NoDate),
                          Outcome("empty", "raise", NoDate)})

OutcomesFor(media) == OutcomesOver(media, ReleaseDates)

RECURSIVE OutcomeSeqsOver(_, _)
OutcomeSeqsOver(cs, dates) ==
    IF cs = <<>> THEN {<<>>}
    ELSE {<<o>> \o rest : o \in OutcomesOver(Head(cs), dates),
                          rest \in OutcomeSeqsOver(Tail(cs), dates)}

OutcomeSeqs(cs) == OutcomeSeqsOver(cs, ReleaseDates)

(* One requests.get of the search: its query, what it did and, on a hit,   *)
(* the release date of results[0].                                         *)
Lookup(media, media_type, y, got, release) ==
    [title |-> media.title, media_type |-> media_type, year |-> y, got |-> got,
     release |-> IF got = "hit" THEN release ELSE NoDate]

(* The annotation with the recent-release test made first. *)
release_status_RecentFirst(release) ==
    IF is_recent_release(release) THEN " (RECENT)"
    ELSE IF is_upcoming_release(release) THEN " (UPCOMING)"
    ELSE ""

release_status(release) ==
    IF is_upcoming_release(release) THEN " (UPCOMING)"
    ELSE IF is_recent_release(release) THEN " (RECENT)"
    ELSE ""

(* The item appended for results[0]; its title is the one TMDb returns,    *)
(* written here as the title that was searched for.                        *)
MatchItem(media, media_type, release) ==
    [title |-> media.title, media_type |-> media_type,
     year |-> release_year(release), tmdb_link |-> "/id",
     release_status |-> release_status(release)]

Placeholder(media, media_type) ==
    [title |-> media.title, media_type |-> media_type, tmdb_link |-> "#",
     release_status |-> " (Not found in database)"]

(* What the except clause of the per-candidate try appends to              *)
(* media_data[key]: the code logs and continues.                           *)
OnLookupError(media, media_type) == <<>>

(* The body of the inner for loop retrying a search with no results also   *)
(* when the candidate has no year.                                         *)
EnrichOne_RetryAlways(media, media_type, o) ==
    IF media.title = "" THEN [items |-> <<>>, calls |-> <<>>]
    ELSE LET l1 == Lookup(media, media_type, media.year, o.first, o.release)
             l2 == Lookup(media, media_type, 0, o.second, o.release)
         IN  IF o.first = "raise"
             THEN [items |-> <<>>, calls |-> <<l1>>]
             ELSE IF o.first = "hit"
             THEN [items |-> <<MatchItem(media, media_type, o.release)>>,
                   calls |-> <<l1>>]
             ELSE IF o.second = "hit"
             THEN [items |-> <<MatchItem(media, media_type, o.release)>>,
                   calls |-> <<l1, l2>>]
             ELSE [items |-> <<Placeholder(media, media_type)>>,
                   calls |-> <<l1, l2>>]

(* The body of the inner for loop for one candidate: the items appended to *)
(* media_data[key] and the requests.get calls made.                        *)
EnrichOne(media, media_type, o) ==
    IF media.title = "" THEN [items |-> <<>>, calls |-> <<>>]
    ELSE LET l1 == Lookup(media, media_type, media.year, o.first, o.release)
             l2 == Lookup(media, media_type, 0, o.second, o.release)
         IN  IF o.first = "raise"
             THEN [items |-> OnLookupError(media, media_type), calls |-> <<l1>>]
             ELSE IF o.first = "hit"
             THEN [items |-> <<MatchItem(media, media_type, o.release)>>,
                   calls |-> <<l1>>]
             ELSE IF media.year = 0
             THEN [items |-> <<Placeholder(media, media_type)>>, calls |-> <<l1>>]
             ELSE IF o.second = "raise"
             THEN [items |-> OnLookupError(media, media_type), calls |-> <<l1, l2>>]
             ELSE IF o.second = "hit"
             THEN [items |-> <<MatchItem(media, media_type, o.release)>>,
                   calls |-> <<l1, l2>>]
             ELSE [items |-> <<Placeholder(media, media_type)>>,
                   calls |-> <<l1, l2>>]

(* The inner for loop with an exception that leaves the loop. *)
RECURSIVE EnrichList_Abort(_, _, _)
EnrichList_Abort(media_list, media_type, os) ==
    IF media_list = <<>> THEN [items |-> <<>>, calls |-> <<>>]
    ELSE LET h == EnrichOne(Head(media_list), media_type, Head(os))
             t == IF h.calls # <<>> /\ Last(h.calls).got = "raise"
                  THEN [items |-> <<>>, calls |-> <<>>]
                  ELSE EnrichList_Abort(Tail(media_list), media_type, Tail(os))
         IN  [items |-> h.items \o t.items, calls |-> h.calls \o t.calls]

(* The inner for loop over one list. *)
RECURSIVE EnrichList(_, _, _)
EnrichList(media_list, media_type, os) ==
    IF media_list = <<>> THEN [items |-> <<>>, calls |-> <<>>]
    ELSE LET h == EnrichOne(Head(media_list), media_type, Head(os))
             t == EnrichList(Tail(media_list), media_type, Tail(os))
         IN  [items |-> h.items \o t.items, calls |-> h.calls \o t.calls]

EmptyMetadata == [movies |-> <<>>, tv_shows |-> <<>>]

NoCandidates == [movies |-> <<>>, tv_shows |-> <<>>]

(* The content of the last AIMessage, {} (falsy) when there is none. *)
RECURSIVE last_ai_message(_)
last_ai_message(msgs) ==
    IF msgs = <<>> THEN {}
    ELSE IF Last(msgs).role = "ai" THEN Last(msgs).content
    ELSE last_ai_message(SubSeq(msgs, 1, Len(msgs) - 1))

(* enricher_node: final_response_metadata, with the candidates extracted   *)
(* and the lookups made.  x is the extraction, om and ot the outcomes of   *)
(* the movie and TV lookups.                                               *)
enricher_node(msgs, x, om, ot) ==
    IF last_ai_message(msgs) = {}
    THEN [metadata |-> EmptyMetadata, candidates |-> NoCandidates, calls |-> <<>>]
    ELSE LET c == IF x.raised THEN NoCandidates
                  ELSE [movies |-> x.movies, tv_shows |-> x.tv_shows]
             m == EnrichList(c.movies, "movie", om)
             t == EnrichList(c.tv_shows, "tv", ot)
         IN  [metadata |-> [movies |-> m.items, tv_shows |-> t.items],
              candidates |-> c,
              calls |-> m.calls \o t.calls]

(***************************************************************************)
(* agents/error_handling.py, agents/memory.py                              *)
(***************************************************************************)
(* get_fallback_response(error_type, user_message) *)
get_fallback_response(error_type) ==
    CASE error_type = "tool_error" ->
           "I encountered an issue searching for that information. Could you try rephrasing your question?"
      [] error_type = "llm_error" ->
           "I'm having trouble processing your request right now. Please try again in a moment."
      [] error_type = "rate_limit" ->
           "I'm receiving too many requests right now. Please wait a moment and try again."
      [] error_type = "timeout" ->
           "That search is taking longer than expected. Could you try a more specific query?"
      [] error_type = "not_found" ->
           "I couldn't find any results for that. Could you provide more details or try a different search?"
      [] OTHER -> "I encountered an unexpected error. Please try again."

FallbackReplies ==
    {get_fallback_response(t) : t \in {"llm_error", "rate_limit", "timeout"}}

(* An exception is represented by the markers its str() contains. *)
Exceptions == {{}, {"rate"}, {"429"}, {"timeout"}, {"rate", "timeout"}}

(* GraphRecursionError: "Recursion limit of 15 reached without hitting a   *)
(* stop condition ..." holds none of the markers; neither does the error   *)
(* of a route that is not in the path map.                                 *)
GraphRecursionError == {}
UnknownRouteError == {}

(* run_agent_chat, except clause: the error type chosen from str(e) *)
ErrorType(e) ==
    IF "rate" \in e \/ "429" \in e THEN "rate_limit"
    ELSE IF "timeout" \in e THEN "timeout"
    ELSE "llm_error"

session_id == "s1"

(* run_agent_chat, except clause: the fallback result *)
FallbackResult(e) ==
    [reply |-> get_fallback_response(ErrorType(e)),
     error |-> e,
     metadata |-> [session_id |-> session_id, error_type |-> ErrorType(e)]]

NoResult == [none |-> TRUE]

(* An exception raised by the LLM call of a stage: the stage and str(e). *)
Failure(stage, e) == [stage |-> stage, error |-> e]

NoFailure == Failure("none", {})

(* _cache_ttl = timedelta(hours=24) *)
cache_ttl == 24

NoRecord == [exists |-> FALSE]

(* ConversationMemory.__init__ *)
ConversationMemory(t) ==
    [exists |-> TRUE, created_at |-> t, last_accessed |-> t,
     message_count |-> 0, metadata |-> [last_intent |-> None, last_route |-> None]]

(* ConversationMemory.is_expired *)
is_expired(c, t) == t - c.last_accessed > cache_ttl

(* get_conversation_summary with no expiry check. *)
get_conversation_summary_NoExpiry(c, t) ==
    IF c.exists THEN [c EXCEPT !.last_accessed = t] ELSE c

(* get_conversation_summary: the cache entry it leaves; it returns the     *)
(* record's to_dict() when it leaves one and None otherwise.               *)
get_conversation_summary(c, t) ==
    IF c.exists
    THEN IF is_expired(c, t) THEN NoRecord ELSE [c EXCEPT !.last_accessed = t]
    ELSE c

(* update_conversation_metadata: the cache entry it leaves *)
update_conversation_metadata(c, t, count, intent, route) ==
    LET c0 == IF c.exists THEN c ELSE ConversationMemory(t)
    IN  [c0 EXCEPT !.message_count = count,
                   !.metadata = [last_intent |-> intent, last_route |-> route],
                   !.last_accessed = t]

(***************************************************************************)
(* api/agent_service.py: run_agent_chat under retry_on_error               *)
(***************************************************************************)
(* @retry_on_error(max_retries=2, delay=1.0) *)
max_retries == 2

(* The graph library's own limit, the one that applies when the config    *)
(* sets none.                                                              *)
default_recursion_limit == 15 + 10

(* config["recursion_limit"] *)
recursion_limit == 15

Nodes == {"supervisor", "retriever", "chat", "enricher"}

(* What the user can send, what the retriever and chat models can answer   *)
(* and which tool calls the retriever's agent can have made.               *)
UserMessages ==
    {{"suggest"}, {"what is"}, {"hello"}, {"recommend", "explain"}, {"ok"}}

Replies == {{"ok"}, {"recommend"}, {"film noir"}, {"i'd be happy"}}

ToolCalls == {<<>>, <<ToolCall("search_vector_db", Underlying("results", 1))>>}

(* The session before the turn: its thread in the graph's MemorySaver, its *)
(* entry of _conversation_cache and whether the graph singleton exists.    *)
Sessions ==
    { [messages |-> <<>>, conv |-> NoRecord, graph |-> FALSE],
      [messages |-> <<HumanMessage({"hello"}, 0), AIMessage({"i'd be happy"}, 0)>>,
       conv |-> [ConversationMemory(29) EXCEPT !.message_count = 2],
       graph |-> TRUE],
      [messages |-> <<HumanMessage({"suggest"}, 0), AIMessage({"recommend"}, 0)>>,
       conv |-> [ConversationMemory(2) EXCEPT !.message_count = 2],
       graph |-> TRUE] }

TurnInit ==
    /\ pc = "entry"
    /\ user_message \in UserMessages
    /\ attempt = 0
    /\ \E s \in Sessions :
          /\ messages = s.messages
          /\ conv = s.conv
          /\ graph_instance = s.graph
    /\ next_step = None
    /\ user_intent = None
    /\ retrieved_context = <<>>
    /\ agent_messages = <<>>
    /\ final_response_metadata = EmptyMetadata
    /\ steps = 0
    /\ prev = "none"
    /\ classifier_calls = 0
    /\ candidates = NoCandidates
    /\ lookups = <<>>
    /\ result = NoResult
    /\ raised = FALSE
    /\ failure = NoFailure
    /\ clock = 30

(* retry_on_error.wrapper, except clause: another attempt after the sleep, *)
(* or raise last_exception after the last one.                             *)
RetryOnError ==
    IF attempt < max_retries - 1
    THEN /\ attempt' = attempt + 1
         /\ pc' = "entry"
         /\ raised' = raised
    ELSE /\ attempt' = attempt
         /\ pc' = "done"
         /\ raised' = TRUE

(* get_agent_graph() raises: create_agent_graph failed, before the try. *)
GraphConstructionFails ==
    /\ pc = "entry"
    /\ ~graph_instance
    /\ RetryOnError
    /\ UNCHANGED <<user_message, classifier_calls, graph_instance, messages, next_step, user_intent,
                   retrieved_context, agent_messages, final_response_metadata, steps, prev,
                   candidates, lookups, result, failure, conv, clock>>

(* get_conversation_context(session_id) raises, before the try. *)
ConversationContextFails ==
    /\ pc = "entry"
    /\ graph_instance' = TRUE
    /\ RetryOnError
    /\ UNCHANGED <<user_message, classifier_calls, messages, next_step, user_intent,
                   retrieved_context, agent_messages, final_response_metadata, steps, prev,
                   candidates, lookups, result, failure, conv, clock>>

(* Lines 46-72: the graph, the context, the initial state merged into the  *)
(* thread (add_messages appends the HumanMessage, the other channels are   *)
(* overwritten) and the start of graph.invoke.                             *)
StartInvoke ==
    /\ pc = "entry"
    /\ graph_instance' = TRUE
    /\ conv' = get_conversation_summary(conv, clock)
    /\ messages' = Append(messages, HumanMessage(user_message, 1))
    /\ next_step' = None
    /\ user_intent' = None
    /\ retrieved_context' = <<>>
    /\ agent_messages' = <<>>
    /\ final_response_metadata' = EmptyMetadata
    /\ steps' = 0
    /\ prev' = "START"
    /\ classifier_calls' = 0
    /\ pc' = "supervisor"
    /\ UNCHANGED <<user_message, attempt, candidates, lookups, result, raised, failure, clock>>

(* The except clause of run_agent_chat: the fallback result is returned,   *)
(* so retry_on_error sees a normal return.                                 *)
ExceptHandler(e) ==
    /\ result' = FallbackResult(e)
    /\ pc' = "done"

(* graph.invoke raises GraphRecursionError: a node is due and the          *)
(* recursion limit of super-steps is used up.                              *)
RecursionLimitHit ==
    /\ pc \in Nodes
    /\ steps >= recursion_limit
    /\ ExceptHandler(GraphRecursionError)
    /\ UNCHANGED <<user_message, classifier_calls, attempt, graph_instance, messages, next_step,
                   user_intent, retrieved_context, agent_messages, final_response_metadata, steps,
                   prev, candidates, lookups, raised, failure, conv, clock>>

Goto(edge) == IF edge = "__end__" THEN "end" ELSE edge

(* supervisor_node returning a state with the retrieval field reset. *)
SupervisorKeyword_ResetsContext ==
    /\ pc = "supervisor"
    /\ steps < recursion_limit
    /\ KeywordRoute(messages) # "llm"
    /\ LET d == supervisor_node(messages, "end")
       IN  /\ next_step' = d.next_step
           /\ user_intent' = d.user_intent
           /\ pc' = Goto(should_continue(d.next_step))
    /\ steps' = steps + 1
    /\ prev' = "supervisor"
    /\ retrieved_context' = <<>>
    /\ UNCHANGED <<user_message, classifier_calls, attempt, graph_instance, messages,
                   agent_messages, final_response_metadata, candidates,
                   lookups, result, raised, failure, conv, clock>>

(* supervisor_node decides by a keyword rule; should_continue routes. *)
SupervisorKeyword ==
    /\ pc = "supervisor"
    /\ steps < recursion_limit
    /\ KeywordRoute(messages) # "llm"
    /\ LET d == supervisor_node(messages, "end")
       IN  /\ next_step' = d.next_step
           /\ user_intent' = d.user_intent
           /\ pc' = Goto(should_continue(d.next_step))
    /\ steps' = steps + 1
    /\ prev' = "supervisor"
    /\ UNCHANGED <<user_message, classifier_calls, attempt, graph_instance, messages,
                   retrieved_context, agent_messages, final_response_metadata, candidates,
                   lookups, result, raised, failure, conv, clock>>

(* supervisor_node falls through to the structured-output call, which      *)
(* returns `decision`; a route outside the path map fails the invoke.      *)
SupervisorLLM(decision) ==
    /\ pc = "supervisor"
    /\ steps < recursion_limit
    /\ KeywordRoute(messages) = "llm"
    /\ LET d == supervisor_node(messages, decision)
       IN  /\ next_step' = d.next_step
           /\ user_intent' = d.user_intent
           /\ IF should_continue(d.next_step) \in PathMap
              THEN /\ pc' = Goto(should_continue(d.next_step))
                   /\ result' = result
              ELSE ExceptHandler(UnknownRouteError)
    /\ steps' = steps + 1
    /\ prev' = "supervisor"
    /\ classifier_calls' = classifier_calls + 1
    /\ UNCHANGED <<user_message, attempt, graph_instance, messages,
                   retrieved_context, agent_messages, final_response_metadata, candidates,
                   lookups, raised, failure, conv, clock>>

(* supervisor_node answering a failed structured-output call with a       *)
(* default route instead of raising.                                       *)
SupervisorLLMFails_GuessRoute(e) ==
    /\ pc = "supervisor"
    /\ steps < recursion_limit
    /\ KeywordRoute(messages) = "llm"
    /\ next_step' = "chat"
    /\ user_intent' = "chat"
    /\ pc' = "chat"
    /\ steps' = steps + 1
    /\ prev' = "supervisor"
    /\ classifier_calls' = classifier_calls + 1
    /\ failure' = Failure(pc, e)
    /\ UNCHANGED <<user_message, attempt, graph_instance, messages,
                   retrieved_context, agent_messages, final_response_metadata,
                   candidates, lookups, result, raised, conv, clock>>

(* The structured-output call of supervisor_node raises e. *)
SupervisorLLMFails(e) ==
    /\ pc = "supervisor"
    /\ steps < recursion_limit
    /\ KeywordRoute(messages) = "llm"
    /\ ExceptHandler(e)
    /\ classifier_calls' = classifier_calls + 1
    /\ failure' = Failure(pc, e)
    /\ UNCHANGED <<user_message, attempt, graph_instance, messages, next_step,
                   user_intent, retrieved_context, agent_messages, final_response_metadata, steps,
                   prev, candidates, lookups, raised, conv, clock>>

(* retriever_node returning every message of the agent's run instead of    *)
(* the final one.                                                          *)
RetrieverStep_AllAgentMessages(reply, tools) ==
    /\ pc = "retriever"
    /\ steps < recursion_limit
    /\ messages' = messages \o <<AIMessage({}, 1), AIMessage(reply, 1)>>
    /\ retrieved_context' = [i \in 1..Len(tools) |-> tools[i].tool]
    /\ agent_messages' = [i \in 1..Len(tools) |-> CallTool(tools[i])]
    /\ steps' = steps + 1
    /\ prev' = "retriever"
    /\ pc' = "supervisor"
    /\ UNCHANGED <<user_message, classifier_calls, attempt, graph_instance, next_step,
                   user_intent, final_response_metadata, candidates, lookups,
                   result, raised, failure, conv, clock>>

(* retriever_node wired with an edge to END instead of to supervisor. *)
RetrieverStep_ToEnd(reply, tools) ==
    /\ pc = "retriever"
    /\ steps < recursion_limit
    /\ messages' = Append(messages, AIMessage(reply, 1))
    /\ retrieved_context' = [i \in 1..Len(tools) |-> tools[i].tool]
    /\ agent_messages' = [i \in 1..Len(tools) |-> CallTool(tools[i])]
    /\ steps' = steps + 1
    /\ prev' = "retriever"
    /\ pc' = "end"
    /\ UNCHANGED <<user_message, classifier_calls, attempt, graph_instance, next_step,
                   user_intent, final_response_metadata, candidates, lookups,
                   result, raised, failure, conv, clock>>

(* retriever_node: the agent makes the tool calls of `tools`, its final     *)
(* AIMessage is appended and the tool calls are recorded.                  *)
RetrieverStep(reply, tools) ==
    /\ pc = "retriever"
    /\ steps < recursion_limit
    /\ messages' = Append(messages, AIMessage(reply, 1))
    /\ retrieved_context' = [i \in 1..Len(tools) |-> tools[i].tool]
    /\ agent_messages' = [i \in 1..Len(tools) |-> CallTool(tools[i])]
    /\ steps' = steps + 1
    /\ prev' = "retriever"
    /\ pc' = "supervisor"
    /\ UNCHANGED <<user_message, classifier_calls, attempt, graph_instance, next_step, user_intent,
                   final_response_metadata, candidates, lookups, result, raised, failure,
                   conv, clock>>

(* agent.invoke of retriever_node raises e. *)
RetrieverFails(e) ==
    /\ pc = "retriever"
    /\ steps < recursion_limit
    /\ ExceptHandler(e)
    /\ failure' = Failure(pc, e)
    /\ UNCHANGED <<user_message, classifier_calls, attempt, graph_instance, messages, next_step,
                   user_intent, retrieved_context, agent_messages, final_response_metadata, steps,
                   prev, candidates, lookups, raised, conv, clock>>

(* chat_node returning a state with the retrieval field reset. *)
ChatStep_ResetsContext(reply) ==
    /\ pc = "chat"
    /\ steps < recursion_limit
    /\ messages' = Append(messages, AIMessage(reply, 1))
    /\ retrieved_context' = <<>>
    /\ agent_messages' = <<>>
    /\ steps' = steps + 1
    /\ prev' = "chat"
    /\ pc' = "supervisor"
    /\ UNCHANGED <<user_message, classifier_calls, attempt, graph_instance, next_step,
                   user_intent, final_response_metadata, candidates, lookups,
                   result, raised, failure, conv, clock>>

(* chat_node: one AIMessage appended. *)
ChatStep(reply) ==
    /\ pc = "chat"
    /\ steps < recursion_limit
    /\ messages' = Append(messages, AIMessage(reply, 1))
    /\ steps' = steps + 1
    /\ prev' = "chat"
    /\ pc' = "supervisor"
    /\ UNCHANGED <<user_message, classifier_calls, attempt, graph_instance, next_step, user_intent,
                   retrieved_context, agent_messages, final_response_metadata, candidates, lookups,
                   result, raised, failure, conv, clock>>

(* CHAT_MODEL.invoke of chat_node raises e. *)
ChatFails(e) ==
    /\ pc = "chat"
    /\ steps < recursion_limit
    /\ ExceptHandler(e)
    /\ failure' = Failure(pc, e)
    /\ UNCHANGED <<user_message, classifier_calls, attempt, graph_instance, messages, next_step,
                   user_intent, retrieved_context, agent_messages, final_response_metadata, steps,
                   prev, candidates, lookups, raised, conv, clock>>

(* enricher_node with no try around extract_media_with_llm: its exception  *)
(* leaves the node and ends the invoke.                                    *)
EnricherStep_ExtractionPropagates(x, om, ot) ==
    /\ pc = "enricher"
    /\ steps < recursion_limit
    /\ IF x.raised /\ last_ai_message(messages) # {}
       THEN /\ failure' = Failure("enricher", {})
            /\ ExceptHandler({})
            /\ UNCHANGED <<final_response_metadata, candidates, lookups, steps, prev>>
       ELSE /\ LET r == enricher_node(messages, x, om, ot)
               IN  /\ final_response_metadata' = r.metadata
                   /\ candidates' = r.candidates
                   /\ lookups' = r.calls
            /\ steps' = steps + 1
            /\ prev' = "enricher"
            /\ pc' = "end"
            /\ UNCHANGED <<failure, result>>
    /\ UNCHANGED <<user_message, classifier_calls, attempt, graph_instance, messages, next_step,
                   user_intent, retrieved_context, agent_messages, raised, conv, clock>>

(* enricher_node, then the edge enricher -> END.  An exception of          *)
(* extract_media_with_llm is caught inside the node; it is recorded in     *)
(* failure.                                                                *)
EnricherStep(x, om, ot) ==
    /\ pc = "enricher"
    /\ steps < recursion_limit
    /\ LET r == enricher_node(messages, x, om, ot)
       IN  /\ final_response_metadata' = r.metadata
           /\ candidates' = r.candidates
           /\ lookups' = r.calls
    /\ failure' = IF x.raised /\ last_ai_message(messages) # {}
                  THEN Failure("enricher", {})
                  ELSE failure
    /\ steps' = steps + 1
    /\ prev' = "enricher"
    /\ pc' = "end"
    /\ UNCHANGED <<user_message, classifier_calls, attempt, graph_instance, messages, next_step,
                   user_intent, retrieved_context, agent_messages, result, raised, conv, clock>>

(* run_agent_chat lines 76-80: the content of the last message whose       *)
(* content is not empty, "" when there is none.                            *)
RECURSIVE final_reply(_)
final_reply(msgs) ==
    IF msgs = <<>> THEN {}
    ELSE IF Last(msgs).content # {} THEN Last(msgs).content
    ELSE final_reply(SubSeq(msgs, 1, Len(msgs) - 1))

(* run_agent_chat lines 103-121: movies and tv_shows are added only when   *)
(* they are not empty.                                                     *)
Response(msgs, route, intent, metadata) ==
    LET base == [reply |-> final_reply(msgs),
                 metadata |-> [session_id |-> session_id,
                               message_count |-> Len(msgs),
                               route |-> route,
                               intent |-> intent]]
        m == IF metadata.movies # <<>> THEN [movies |-> metadata.movies] ELSE <<>>
        t == IF metadata.tv_shows # <<>> THEN [tv_shows |-> metadata.tv_shows] ELSE <<>>
    IN  base @@ m @@ t

(* graph.invoke returned: memory updated, response built and returned. *)
ReturnResponse ==
    /\ pc = "end"
    /\ conv' = update_conversation_metadata(conv, clock, Len(messages),
                                            user_intent, next_step)
    /\ result' = Response(messages, next_step, user_intent, final_response_metadata)
    /\ pc' = "done"
    /\ UNCHANGED <<user_message, classifier_calls, attempt, graph_instance, messages, next_step,
                   user_intent, retrieved_context, agent_messages, final_response_metadata, steps,
                   prev, candidates, lookups, raised, failure, clock>>

EnricherAny ==
    \E x \in Extractions :
        \E om \in OutcomeSeqs(x.movies) :
            \E ot \in OutcomeSeqs(x.tv_shows) : EnricherStep(x, om, ot)

TurnNext ==
    \/ GraphConstructionFails
    \/ ConversationContextFails
    \/ StartInvoke
    \/ RecursionLimitHit
    \/ SupervisorKeyword
    \/ \E d \in LLMDecisions : SupervisorLLM(d)
    \/ \E e \in Exceptions : SupervisorLLMFails(e)
    \/ \E r \in Replies : \E t \in ToolCalls : RetrieverStep(r, t)
    \/ \E e \in Exceptions : RetrieverFails(e)
    \/ \E r \in Replies : ChatStep(r)
    \/ \E e \in Exceptions : ChatFails(e)
    \/ EnricherAny
    \/ ReturnResponse

(***************************************************************************)
(* api/agent_service.py: run_agent_chat_streaming, and the generate() of   *)
(* api/flask_integration.py that sends its updates as SSE events           *)
(***************************************************************************)
StreamIdle == events = <<>>

(* The update yielded for one state update of graph.stream. *)
StageEvent(node, msgs, intent, ns, metadata) ==
    [node |-> node,
     message |-> IF msgs = <<>> THEN {} ELSE Last(msgs).content,
     intent |-> intent,
     next_step |-> ns,
     metadata |-> metadata]

(* The update yielded by the except clause. *)
ErrorEvent(e) ==
    [node |-> "error", message |-> get_fallback_response("llm_error"), error |-> e]

(* generate(): the completion event  data: {"done": true} *)
DoneEvent == [done |-> TRUE]

(* update_conversation_metadata(session_id, message_count=n): metadata is  *)
(* None, so conv.metadata is left alone.                                   *)
update_message_count(c, t, count) ==
    LET c0 == IF c.exists THEN c ELSE ConversationMemory(t)
    IN  [c0 EXCEPT !.message_count = count, !.last_accessed = t]

(* get_agent_graph() raises before the try: the generator raises at its    *)
(* first next(), which ends generate() and the response.                   *)
StreamConstructionFails ==
    /\ pc = "entry"
    /\ ~graph_instance
    /\ raised' = TRUE
    /\ pc' = "closed"
    /\ UNCHANGED <<user_message, classifier_calls, attempt, graph_instance, messages,
                   next_step, user_intent, retrieved_context, agent_messages,
                   final_response_metadata, steps, prev, candidates, lookups,
                   result, failure, conv, clock, events>>

(* Lines 160-179: the graph, the initial state merged into the thread and  *)
(* the start of graph.stream.                                              *)
StreamStart ==
    /\ pc = "entry"
    /\ graph_instance' = TRUE
    /\ messages' = Append(messages, HumanMessage(user_message, 1))
    /\ next_step' = None
    /\ user_intent' = None
    /\ retrieved_context' = <<>>
    /\ agent_messages' = <<>>
    /\ final_response_metadata' = EmptyMetadata
    /\ steps' = 0
    /\ prev' = "START"
    /\ classifier_calls' = 0
    /\ pc' = "supervisor"
    /\ UNCHANGED <<user_message, attempt, candidates, lookups, result, raised,
                   failure, conv, clock, events>>

(* A stage ran to its end: graph.stream yields {node: state}, from which   *)
(* one update is yielded and sent.                                         *)
YieldStage ==
    events' = Append(events, StageEvent(pc, messages', user_intent', next_step',
                                        final_response_metadata'))

(* One stage of the graph under graph.stream. *)
StreamStage ==
    /\ \/ SupervisorKeyword
       \/ \E d \in LLMDecisions :
             /\ should_continue(d) \in PathMap
             /\ SupervisorLLM(d)
       \/ \E r \in Replies : RetrieverStep(r, <<>>)
       \/ \E r \in Replies : ChatStep(r)
       \/ EnricherAny
    /\ YieldStage

(* graph.stream raises e: the LLM call of the stage that is due failed,    *)
(* the classifier returned a route outside the path map, or the recursion  *)
(* limit is used up.  The except clause yields the error update.           *)
StreamError(e) ==
    /\ pc \in Nodes
    /\ IF steps >= recursion_limit THEN e = GraphRecursionError
       ELSE \/ pc \in {"retriever", "chat"}
            \/ pc = "supervisor" /\ KeywordRoute(messages) = "llm"
    /\ events' = Append(events, ErrorEvent(e))
    /\ failure' = Failure(pc, e)
    /\ pc' = "exhausted"
    /\ UNCHANGED <<user_message, classifier_calls, attempt, graph_instance, messages,
                   next_step, user_intent, retrieved_context, agent_messages,
                   final_response_metadata, steps, prev, candidates, lookups,
                   result, raised, conv, clock>>

(* graph.stream is exhausted: the conversation memory is updated and the   *)
(* generator returns.                                                      *)
StreamFinish ==
    /\ pc = "end"
    /\ conv' = update_message_count(conv, clock, Len(messages))
    /\ pc' = "exhausted"
    /\ UNCHANGED <<user_message, classifier_calls, attempt, graph_instance, messages,
                   next_step, user_intent, retrieved_context, agent_messages,
                   final_response_metadata, steps, prev, candidates, lookups,
                   result, raised, failure, clock, events>>

(* generate() after its for loop: the completion event. *)
SendDone ==
    /\ pc = "exhausted"
    /\ events' = Append(events, DoneEvent)
    /\ pc' = "closed"
    /\ UNCHANGED <<user_message, classifier_calls, attempt, graph_instance, messages,
                   next_step, user_intent, retrieved_context, agent_messages,
                   final_response_metadata, steps, prev, candidates, lookups,
                   result, raised, failure, conv, clock>>

(***************************************************************************)
(* agents/rate_limiter.py                                                  *)
(***************************************************************************)
(* The two module-level limiters.  The model runs the class at small       *)
(* max_requests and time_window (the module uses 20 and 100 requests per   *)
(* 60 seconds); time is in whole seconds.                                  *)
Limiters == {"user", "global"}

UserMaxRequests == 2
GlobalMaxRequests == 3
TimeWindow == 2

max_requests(l) == IF l = "user" THEN UserMaxRequests ELSE GlobalMaxRequests
time_window(l) == TimeWindow

(* The identifiers each limiter is asked about. *)
Identifiers(l) == IF l = "user" THEN {session_id} ELSE {"global"}

(* The clock stops at MaxTime; MaxDelay bounds the time that passes        *)
(* between two clock reads of one call.                                    *)
MaxTime == 5
MaxDelay == 1

Max(a, b) == IF a >= b THEN a ELSE b

RECURSIVE Min(_)
Min(s) == IF Len(s) = 1 THEN s[1]
          ELSE LET m == Min(Tail(s)) IN IF s[1] <= m THEN s[1] ELSE m

(* "Remove old requests" keeping a request that is exactly one window old *)
Kept_Inclusive(req_time, cutoff) == req_time >= cutoff

(* is_allowed, "Remove old requests": req_time > cutoff is kept *)
Kept(req_time, cutoff) == req_time > cutoff

RemoveOld(reqs, t, W) == SelectSeq(reqs, LAMBDA req_time : Kept(req_time, t - W))

(* RateLimiter.is_allowed(identifier) at clock reading t: what it returns  *)
(* and the list it leaves in self.requests[identifier].                    *)
is_allowed(reqs, t, N, W) ==
    LET kept == RemoveOld(reqs, t, W)
    IN  IF Len(kept) < N
        THEN [allowed |-> TRUE, requests |-> Append(kept, t)]
        ELSE [allowed |-> FALSE, requests |-> kept]

(* RateLimiter.get_wait_time(identifier): is_allowed reads the clock at    *)
(* t1, the wait is computed from a second reading t2.                      *)
get_wait_time(reqs, t1, t2, N, W) ==
    LET a == is_allowed(reqs, t1, N, W)
    IN  IF a.allowed THEN [wait |-> 0, requests |-> a.requests]
        ELSE IF a.requests = <<>> THEN [wait |-> 0, requests |-> a.requests]
        ELSE [wait |-> Max(0, Min(a.requests) + W - t2), requests |-> a.requests]

NoCall == [op |-> "none"]

LimiterIdle ==
    /\ requests = [l \in Limiters |-> [i \in Identifiers(l) |-> <<>>]]
    /\ now = 0
    /\ last = NoCall

(* Time passes. *)
Tick ==
    /\ now < MaxTime
    /\ now' = now + 1
    /\ UNCHANGED <<requests, last>>

(* A call of limiter.is_allowed(id). *)
IsAllowed(l, id) ==
    LET a == is_allowed(requests[l][id], now, max_requests(l), time_window(l))
    IN  /\ requests' = [requests EXCEPT ![l][id] = a.requests]
        /\ last' = [op |-> "is_allowed", limiter |-> l, id |-> id, at |-> now,
                    at2 |-> now, before |-> requests, allowed |-> a.allowed,
                    wait |-> 0]
        /\ now' = now

(* A call of limiter.get_wait_time(id); d seconds pass between its two     *)
(* clock reads.                                                            *)
GetWaitTime(l, id, d) ==
    LET g == get_wait_time(requests[l][id], now, now + d,
                           max_requests(l), time_window(l))
    IN  /\ now + d <= MaxTime
        /\ requests' = [requests EXCEPT ![l][id] = g.requests]
        /\ last' = [op |-> "get_wait_time", limiter |-> l, id |-> id, at |-> now,
                    at2 |-> now + d, before |-> requests,
                    allowed |-> is_allowed(requests[l][id], now, max_requests(l),
                                           time_window(l)).allowed,
                    wait |-> g.wait]
        /\ now' = now + d

(* check_rate_limit(session_id): the global limiter first, then the        *)
(* per-user one; d1 and d2 seconds pass before the clock reads of the      *)
(* get_wait_time call it makes on a refusal.                               *)
check_rate_limit(reqs, sid, t, d1, d2) ==
    LET G == max_requests("global")
        U == max_requests("user")
        W == time_window("global")
        g == is_allowed(reqs["global"]["global"], t, G, W)
        gw == get_wait_time(g.requests, t + d1, t + d1 + d2, G, W)
        u == is_allowed(reqs["user"][sid], t, U, time_window("user"))
        uw == get_wait_time(u.requests, t + d1, t + d1 + d2, U, time_window("user"))
    IN  IF ~g.allowed
        THEN [allowed |-> FALSE, wait |-> gw.wait,
              requests |-> [reqs EXCEPT !["global"]["global"] = gw.requests],
              at2 |-> t + d1 + d2]
        ELSE IF ~u.allowed
        THEN [allowed |-> FALSE, wait |-> uw.wait,
              requests |-> [reqs EXCEPT !["global"]["global"] = g.requests,
                                        !["user"][sid] = uw.requests],
              at2 |-> t + d1 + d2]
        ELSE [allowed |-> TRUE, wait |-> 0,
              requests |-> [reqs EXCEPT !["global"]["global"] = g.requests,
                                        !["user"][sid] = u.requests],
              at2 |-> t]

CheckRateLimit(sid, d1, d2) ==
    LET c == check_rate_limit(requests, sid, now, d1, d2)
    IN  /\ c.at2 <= MaxTime
        /\ requests' = c.requests
        /\ last' = [op |-> "check_rate_limit", limiter |-> "both", id |-> sid,
                    at |-> now, at2 |-> c.at2, before |-> requests,
                    allowed |-> c.allowed, wait |-> c.wait]
        /\ now' = c.at2

LimiterNext ==
    \/ Tick
    \/ \E l \in Limiters : \E id \in Identifiers(l) : IsAllowed(l, id)
    \/ \E l \in Limiters : \E id \in Identifiers(l) :
          \E d \in 0..MaxDelay : GetWaitTime(l, id, d)
    \/ \E d1 \in 0..MaxDelay : \E d2 \in 0..MaxDelay :
          CheckRateLimit(session_id, d1, d2)

(***************************************************************************)
(* agents/rate_limiter.py: is_allowed called by concurrent threads         *)
(***************************************************************************)
LimiterThreads == {1, 2}

(* Calls start only while fewer than this many have been admitted. *)
MaxAdmitted == 4

IdleThread == [pc |-> "idle"]

ThreadsIdle ==
    /\ lthreads = [th \in LimiterThreads |-> IdleThread]
    /\ admitted = <<>>

(* Lines 38-45, right-hand side: the clock is read and the list            *)
(* comprehension builds the pruned list from the shared one.               *)
IsAllowedPrune(th, l, id) ==
    /\ lthreads[th].pc = "idle"
    /\ Len(admitted) < MaxAdmitted
    /\ lthreads' = [lthreads EXCEPT ![th] =
                       [pc |-> "pruned", now |-> now,
                        kept |-> RemoveOld(requests[l][id], now, time_window(l))]]
    /\ UNCHANGED <<requests, now, last, admitted>>

(* Line 42: the pruned list is stored as self.requests[identifier]. *)
IsAllowedStore(th, l, id) ==
    /\ lthreads[th].pc = "pruned"
    /\ requests' = [requests EXCEPT ![l][id] = lthreads[th].kept]
    /\ lthreads' = [lthreads EXCEPT ![th].pc = "stored"]
    /\ UNCHANGED <<now, last, admitted>>

(* Line 48: len(self.requests[identifier]) < self.max_requests, and        *)
(* return False when it is not.                                            *)
IsAllowedCheck(th, l, id) ==
    /\ lthreads[th].pc = "stored"
    /\ lthreads' = [lthreads EXCEPT ![th] =
                       IF Len(requests[l][id]) < max_requests(l)
                       THEN [lthreads[th] EXCEPT !.pc = "admit"]
                       ELSE IdleThread]
    /\ UNCHANGED <<requests, now, last, admitted>>

(* Lines 49-50: append(now) and return True. *)
IsAllowedAppend(th, l, id) ==
    /\ lthreads[th].pc = "admit"
    /\ requests' = [requests EXCEPT ![l][id] = Append(@, lthreads[th].now)]
    /\ admitted' = Append(admitted, lthreads[th].now)
    /\ lthreads' = [lthreads EXCEPT ![th] = IdleThread]
    /\ UNCHANGED <<now, last>>

(* The threads of T calling _user_rate_limiter.is_allowed(session_id). *)
ThreadsNext(T) ==
    \/ Tick /\ UNCHANGED threadVars
    \/ \E th \in T : IsAllowedPrune(th, "user", session_id)
    \/ \E th \in T : IsAllowedStore(th, "user", session_id)
    \/ \E th \in T : IsAllowedCheck(th, "user", session_id)
    \/ \E th \in T : IsAllowedAppend(th, "user", session_id)

(***************************************************************************)
(* agents/error_handling.py: retry_on_error(max_retries, delay) around any *)
(* function                                                                *)
(***************************************************************************)
MaxRetries == 4

(* The delay arguments tried, in seconds. *)
Delays == {1, 2}

(* What func can return and raise. *)
FuncValues == {"v1", "v2"}
FuncErrors == {"e1", "e2"}

(* raise None: "exceptions must derive from BaseException" *)
TypeError == "TypeError"

(* The wrapper before a call: its arguments and locals, the outcomes of    *)
(* the func calls and the time.sleep arguments so far.                     *)
WrapperAt(n, d) ==
    [max_retries |-> n, delay |-> d, attempt |-> 0, last_exception |-> None,
     status |-> "running", value |-> None, calls |-> <<>>, sleeps |-> <<>>]

WrapperIdle == wrapper = WrapperAt(0, 0)

(* Line 51, the time.sleep argument. *)
backoff(d, a) == d * (a + 1)

(* The for loop is over, or range(max_retries) was empty: raise            *)
(* last_exception.                                                         *)
WrapperRaises ==
    /\ wrapper.status = "running"
    /\ wrapper.attempt >= wrapper.max_retries
    /\ wrapper' = [wrapper EXCEPT
                      !.status = "raised",
                      !.value = IF wrapper.last_exception = None THEN TypeError
                                ELSE wrapper.last_exception]

(* func returns v: the wrapper returns it. *)
WrapperReturns(v) ==
    /\ wrapper.status = "running"
    /\ wrapper.attempt < wrapper.max_retries
    /\ wrapper' = [wrapper EXCEPT !.status = "returned", !.value = v,
                                  !.calls = Append(@, v)]

(* The except clause with a sleep after every failed attempt. *)
WrapperCatches_SleepsAlways(e) ==
    /\ wrapper.status = "running"
    /\ wrapper.attempt < wrapper.max_retries
    /\ wrapper' = [wrapper EXCEPT
                      !.last_exception = e,
                      !.calls = Append(@, e),
                      !.sleeps = Append(@, backoff(wrapper.delay, wrapper.attempt)),
                      !.attempt = @ + 1]

(* func raises e: the except clause keeps it, sleeps unless this was the   *)
(* last attempt, and the loop goes on.                                     *)
WrapperCatches(e) ==
    /\ wrapper.status = "running"
    /\ wrapper.attempt < wrapper.max_retries
    /\ wrapper' = [wrapper EXCEPT
                      !.last_exception = e,
                      !.calls = Append(@, e),
                      !.sleeps = IF wrapper.attempt < wrapper.max_retries - 1
                                 THEN Append(@, backoff(wrapper.delay, wrapper.attempt))
                                 ELSE @,
                      !.attempt = @ + 1]

RetryNext ==
    \/ \E v \in FuncValues : WrapperReturns(v)
    \/ \E e \in FuncErrors : WrapperCatches(e)
    \/ WrapperRaises

(***************************************************************************)
(* routes/tv_tracking.py: episode watches and the show's progress row, for *)
(* one user and one show                                                   *)
(***************************************************************************)
(* The seasons of the show and the episodes TMDb lists for each: the last  *)
(* season is announced and has no episode yet.                             *)
Seasons == {1, 2, 3}

EpisodesPerSeason == 2

episodes(season) == IF season = 3 THEN {} ELSE 1..EpisodesPerSeason

Episodes == {<<sn, ep>> : sn \in Seasons, ep \in 1..EpisodesPerSeason}

(* Requests are made only while the counter is within this distance of 0. *)
MaxWatched == 4

NoProgress == [exists |-> FALSE]

(* TVShowProgress(..., watched_episodes=0, status='watching') *)
TVShowProgress == [exists |-> TRUE, watched_episodes |-> 0]

(* A tv_episode_watch row of an episode, or none. *)
NoWatch == "none"
TVEpisodeWatch(is_rewatch) == IF is_rewatch THEN "rewatch" ELSE "watch"

TvIdle ==
    /\ watches = [e \in Episodes |-> NoWatch]
    /\ progress = NoProgress
    /\ tvlast = [op |-> "none", status |-> 0]

TvResponse(op, status) == tvlast' = [op |-> op, status |-> status]

(* Lines 114-133 and 230-248: the progress row, created when missing. *)
get_or_create_progress == IF progress.exists THEN progress ELSE TVShowProgress

WithinWatched ==
    progress.exists =>
        /\ progress.watched_episodes < MaxWatched
        /\ progress.watched_episodes > 0 - MaxWatched

(* The rows of a season. *)
SeasonRows(season) == {e \in Episodes : e[1] = season /\ watches[e] # NoWatch}

(* mark_episode_watched: an existing row is updated, is_rewatch included;  *)
(* a new row is added and counted unless it is a rewatch.                  *)
mark_episode_watched(season, episode, is_rewatch) ==
    LET e == <<season, episode>>
        p == get_or_create_progress
    IN  /\ WithinWatched
        /\ watches' = [watches EXCEPT ![e] = TVEpisodeWatch(is_rewatch)]
        /\ progress' = IF watches[e] = NoWatch /\ ~is_rewatch
                       THEN [p EXCEPT !.watched_episodes = @ + 1]
                       ELSE p
        /\ TvResponse("mark_episode_watched", 200)

(* mark_season_watched when TMDb does not answer 200: 400, nothing done. *)
mark_season_watched_NoSeason(season) ==
    /\ TvResponse("mark_season_watched", 400)
    /\ UNCHANGED <<watches, progress>>

(* mark_season_watched: the season's rows are deleted and their number is  *)
(* taken off the counter, then one row per listed episode is added and     *)
(* counted.                                                                *)
mark_season_watched(season) ==
    LET p == get_or_create_progress
        existing_count == Cardinality(SeasonRows(season))
        marked_count == Cardinality(episodes(season))
    IN  /\ WithinWatched
        /\ watches' = [e \in Episodes |->
                          IF e[1] # season THEN watches[e]
                          ELSE IF e[2] \in episodes(season) THEN TVEpisodeWatch(FALSE)
                          ELSE NoWatch]
        /\ progress' = [p EXCEPT !.watched_episodes = @ - existing_count + marked_count]
        /\ TvResponse("mark_season_watched", 200)

(* update_episode_watch: with a row, its is_rewatch is set and committed;  *)
(* without one, TVEpisodeWatch(watched_at=...) names no column of the      *)
(* model and raises TypeError, so the handler rolls back and answers 500.  *)
update_episode_watch(season, episode, is_rewatch) ==
    LET e == <<season, episode>>
    IN  IF watches[e] = NoWatch
        THEN /\ TvResponse("update_episode_watch", 500)
             /\ UNCHANGED <<watches, progress>>
        ELSE /\ watches' = [watches EXCEPT ![e] = TVEpisodeWatch(is_rewatch)]
             /\ TvResponse("update_episode_watch", 200)
             /\ UNCHANGED progress

(* unmark_single_episode: the delete is committed, then the call of        *)
(* update_show_progress, a name the module does not define, raises         *)
(* NameError: rollback of nothing and 500.                                 *)
unmark_single_episode(season, episode) ==
    /\ watches' = [watches EXCEPT ![<<season, episode>>] = NoWatch]
    /\ TvResponse("unmark_single_episode", 500)
    /\ UNCHANGED progress

(* unmark_season_watched: as unmark_single_episode, for a season's rows. *)
unmark_season_watched(season) ==
    /\ watches' = [e \in Episodes |-> IF e[1] = season THEN NoWatch ELSE watches[e]]
    /\ TvResponse("unmark_season_watched", 500)
    /\ UNCHANGED progress

TvNext ==
    \/ \E e \in Episodes : \E rw \in BOOLEAN : mark_episode_watched(e[1], e[2], rw)
    \/ \E sn \in Seasons : mark_season_watched(sn)
    \/ \E sn \in Seasons : mark_season_watched_NoSeason(sn)
    \/ \E e \in Episodes : \E rw \in BOOLEAN : update_episode_watch(e[1], e[2], rw)
    \/ \E e \in Episodes : unmark_single_episode(e[1], e[2])
    \/ \E sn \in Seasons : unmark_season_watched(sn)

(***************************************************************************)
(* agents/memory.py under passing time, as the two turn paths call it      *)
(***************************************************************************)
MaxHours == 60

(* How far datetime.now() has moved between two calls: half the expiry     *)
(* time or an hour more, so that two calls can be exactly 24 hours apart    *)
(* and 25 hours apart.                                                     *)
HoursBetweenCalls == {cache_ttl \div 2, cache_ttl \div 2 + 1}

(* No access to the session's record so far. *)
NoAccess == 0 - 1

(* The last call: its name, its datetime.now(), whether it returned a      *)
(* record, and when the record was last accessed successfully before and   *)
(* after the call.                                                         *)
MemCall(op, at, returned, prior, access) ==
    [op |-> op, at |-> at, returned |-> returned, prior |-> prior, access |-> access]

NoMemCall == MemCall("none", NoAccess, FALSE, NoAccess, NoAccess)

MemIdle == mem = NoMemCall

(* clear_expired_conversations: the cache entry it leaves *)
clear_expired_conversations(c, t) ==
    IF c.exists /\ is_expired(c, t) THEN NoRecord ELSE c

MessageCounts == {2, 4}

(* get_conversation_summary(session_id), as get_conversation_context calls *)
(* it; a turn whose graph.invoke raises makes this call only.              *)
GetConversationSummary ==
    /\ conv' = get_conversation_summary(conv, clock)
    /\ mem' = MemCall("get", clock, conv'.exists, mem.access,
                      IF conv'.exists THEN clock ELSE NoAccess)
    /\ UNCHANGED clock

(* run_agent_chat that returns normally: get_conversation_context, then    *)
(* update_conversation_metadata with the turn's intent and route.          *)
BlockingTurnMemory(count, intent, route) ==
    /\ conv' = update_conversation_metadata(get_conversation_summary(conv, clock),
                                            clock, count, intent, route)
    /\ mem' = MemCall("blocking", clock, FALSE, mem.access, clock)
    /\ UNCHANGED clock

(* run_agent_chat_streaming whose graph.stream is exhausted:               *)
(* update_conversation_metadata(session_id, message_count=n) only.         *)
StreamingTurnMemory(count) ==
    /\ conv' = update_message_count(conv, clock, count)
    /\ mem' = MemCall("streaming", clock, FALSE, mem.access, clock)
    /\ UNCHANGED clock

ClearExpiredConversations ==
    /\ conv' = clear_expired_conversations(conv, clock)
    /\ mem' = [MemCall("clear", clock, FALSE, mem.access,
                       IF conv'.exists THEN mem.access ELSE NoAccess)
                 EXCEPT !.prior = mem.access]
    /\ UNCHANGED clock

HoursPass(d) ==
    /\ clock + d <= MaxHours
    /\ clock' = clock + d
    /\ UNCHANGED <<conv, mem>>

MemoryNext ==
    \/ GetConversationSummary
    \/ \E n \in MessageCounts : \E i \in {"chat", "search"} :
          BlockingTurnMemory(n, i, "end")
    \/ \E n \in MessageCounts : StreamingTurnMemory(n)
    \/ ClearExpiredConversations
    \/ \E d \in HoursBetweenCalls : HoursPass(d)

(***************************************************************************)
(* routes/social.py: toggle_follow over the user and user_follow tables    *)
(***************************************************************************)
Users == {"u1", "u2", "u3"}

(* The users whose sessions send toggle_follow requests. *)
Followers == {"u1", "u2"}

(* An id no user has. *)
UnknownUser == "u0"

(* The requests that can be in flight at once. *)
Requests == {1, 2}

(* Requests start only while no counter is above this. *)
MaxCount == 2

Pairs == Users \X Users

(* UniqueConstraint('follower_id', 'following_id') *)
unique_follower_following(rows) == Len(rows) <= 1

(* CheckConstraint('follower_id != following_id') *)
no_self_follow(a, b) == a # b

(* filter_by(is_active=flag).first(): the row found, 0 for None *)
first_row(rows, flag) ==
    LET found == {i \in 1..Len(rows) : rows[i] = flag}
    IN  IF found = {} THEN 0 ELSE CHOOSE i \in found : \A j \in found : i <= j

(* toggle_follow with no lookup of an inactive row. *)
toggle_branch_NoReactivate(rows) ==
    IF first_row(rows, TRUE) # 0 THEN "unfollow" ELSE "create"

(* Lines 29-61: which branch the two queries select. *)
toggle_branch(rows) ==
    IF first_row(rows, TRUE) # 0 THEN "unfollow"
    ELSE IF first_row(rows, FALSE) # 0 THEN "reactivate"
    ELSE "create"

IdleRequest == [pc |-> "idle"]

NoResponse == [seq |-> 0, status |-> 0]

SocialIdle ==
    /\ follows = [p \in Pairs |-> <<>>]
    /\ counts = [u \in Users |-> [followers_count |-> 0, following_count |-> 0]]
    /\ treq = [r \in Requests |-> IdleRequest]
    /\ tlast = NoResponse

(* The tables as they are right now. *)
Tables == [follows |-> follows, counts |-> counts]

(* The JSON answer of a request, with the tables as they were when it      *)
(* answered.                                                               *)
Respond(a, b, status, is_following) ==
    tlast' = [seq |-> 1 - tlast.seq, follower |-> a, target |-> b, status |-> status,
              is_following |-> is_following, before |-> Tables]

(* Lines 19-25: self-follow is refused with 400, an unknown target with    *)
(* 404.                                                                    *)
ToggleFollowRejected(r, a, b) ==
    /\ treq[r].pc = "idle"
    /\ b = a \/ b \notin Users
    /\ Respond(a, b, IF b = a THEN 400 ELSE 404, FALSE)
    /\ UNCHANGED <<follows, counts, treq>>

(* current_user and target_user are loaded into the request's session:     *)
(* their counters are the values read here.                                *)
ToggleFollowLoad(r, a, b) ==
    /\ treq[r].pc = "idle"
    /\ b # a /\ b \in Users
    /\ \A u \in Users : /\ counts[u].followers_count <= MaxCount
                        /\ counts[u].following_count <= MaxCount
    /\ treq' = [treq EXCEPT ![r] =
                   [pc |-> "loaded", follower |-> a, target |-> b,
                    following_count |-> counts[a].following_count,
                    followers_count |-> counts[b].followers_count]]
    /\ UNCHANGED <<follows, counts, tlast>>

(* Lines 29-51: the query for an active row and, without one, for an       *)
(* inactive row.                                                           *)
ToggleFollowQuery(r) ==
    /\ treq[r].pc = "loaded"
    /\ LET q == treq[r]
           rows == follows[<<q.follower, q.target>>]
           branch == toggle_branch(rows)
       IN  treq' = [treq EXCEPT ![r] =
                       [pc |-> "decided", follower |-> q.follower, target |-> q.target,
                        following_count |-> q.following_count,
                        followers_count |-> q.followers_count,
                        branch |-> branch,
                        row |-> first_row(rows, branch = "unfollow")]]
    /\ UNCHANGED <<follows, counts, tlast>>

(* The counters the request writes: absolute values computed from what it  *)
(* loaded.                                                                 *)
NewCounts(q, delta) ==
    LET following == IF delta < 0 THEN Max(0, q.following_count - 1)
                     ELSE q.following_count + 1
        followers == IF delta < 0 THEN Max(0, q.followers_count - 1)
                     ELSE q.followers_count + 1
        own == [counts EXCEPT ![q.follower].following_count = following]
    IN  [own EXCEPT ![q.target].followers_count = followers]

(* db.session.commit(): the row change and both counters are written in    *)
(* one transaction; an insert that breaks a constraint raises              *)
(* IntegrityError, which rolls everything back and answers 500.            *)
ToggleFollowCommit(r) ==
    /\ treq[r].pc = "decided"
    /\ LET q == treq[r]
           p == <<q.follower, q.target>>
           rows == follows[p]
           inserted == Append(rows, TRUE)
       IN  IF q.branch = "unfollow"
           THEN /\ follows' = [follows EXCEPT ![p][q.row] = FALSE]
                /\ counts' = NewCounts(q, 0 - 1)
                /\ Respond(q.follower, q.target, 200, FALSE)
           ELSE IF q.branch = "reactivate"
           THEN /\ follows' = [follows EXCEPT ![p][q.row] = TRUE]
                /\ counts' = NewCounts(q, 1)
                /\ Respond(q.follower, q.target, 200, TRUE)
           ELSE IF unique_follower_following(inserted) /\ no_self_follow(q.follower, q.target)
           THEN /\ follows' = [follows EXCEPT ![p] = inserted]
                /\ counts' = NewCounts(q, 1)
                /\ Respond(q.follower, q.target, 200, TRUE)
           ELSE /\ Respond(q.follower, q.target, 500, FALSE)
                /\ UNCHANGED <<follows, counts>>
    /\ treq' = [treq EXCEPT ![r] = IdleRequest]

(* toggle_follow requests on the users of T, at most those of R in flight  *)
(* at once.                                                                *)
SocialNext(R, T) ==
    \E r \in R :
        \/ \E a \in Followers : \E b \in {a, UnknownUser} : ToggleFollowRejected(r, a, b)
        \/ \E a \in Followers : \E b \in T : ToggleFollowLoad(r, a, b)
        \/ ToggleFollowQuery(r)
        \/ ToggleFollowCommit(r)

(* A turn that has not started: the state the limiter is exercised in. *)
TurnParked ==
    /\ TurnInit
    /\ user_message = {"ok"}
    /\ messages = <<>>

(***************************************************************************)
(* Specifications                                                          *)
(***************************************************************************)
ExtIdle == MemIdle /\ SocialIdle /\ ThreadsIdle /\ WrapperIdle /\ TvIdle

Init == TurnInit /\ LimiterIdle /\ StreamIdle /\ ExtIdle

Next == TurnNext /\ UNCHANGED limiterVars /\ UNCHANGED streamVars /\ UNCHANGED extVars

(* One turn of run_agent_chat. *)
Spec == Init /\ [][Next]_vars

InitRL == TurnParked /\ LimiterIdle /\ StreamIdle /\ ExtIdle

NextRL == LimiterNext /\ UNCHANGED turnVars /\ UNCHANGED streamVars /\ UNCHANGED extVars

(* The rate limiter under arbitrary calls and passing time. *)
SpecRL == InitRL /\ [][NextRL]_vars

(* supervisor_node on its own: the states a turn can have when the         *)
(* supervisor is due, over a wider range of message texts.  The thread     *)
(* holds an earlier turn or none, then the user's message and, when an     *)
(* agent has already answered in this turn, its reply.                     *)
SupUserContents ==
    {{"ok"}, {"suggest"}, {"what is"}, {"hello"}, {"like", "what is"},
     {"new", "hi"}, {"how", "hey"}, {"recommend", "explain", "thanks"}}

SupAIContents ==
    {{}, {"ok"}, {"recommend"}, {"film noir"}, {"i'd be happy"},
     {"here are", "i'm here to help"}, {"suggest", "genre"},
     {"director", "what can i help"}, {"check out", "style", "i'd be happy"}}

SupPriors ==
    {<<>>, <<HumanMessage({"hello"}, 0), AIMessage({"i'd be happy"}, 0)>>}

SupState(msgs, st, pv, ns, calls) ==
    [messages |-> msgs, steps |-> st, prev |-> pv, next_step |-> ns,
     classifier_calls |-> calls]

SupStates ==
    UNION { UNION {
        LET first == p \o <<HumanMessage(u, 1)>>
            calls == IF KeywordRoute(first) = "llm" THEN 1 ELSE 0
        IN  {SupState(first, 0, "START", None, 0)}
            \cup {SupState(Append(first, AIMessage(a, 1)), 2, r, r, calls) :
                    a \in SupAIContents,
                    r \in {x \in {"retriever", "chat"} :
                             KeywordRoute(first) \in {"llm", x}}}
        : u \in SupUserContents } : p \in SupPriors }

InitSup ==
    /\ pc = "supervisor"
    /\ \E h \in SupStates :
          /\ messages = h.messages
          /\ steps = h.steps
          /\ prev = h.prev
          /\ next_step = h.next_step
          /\ user_intent = IF h.next_step = None THEN None ELSE intent_map(h.next_step)
          /\ classifier_calls = h.classifier_calls
          /\ user_message = h.messages[IF h.steps = 0 THEN Len(h.messages)
                                       ELSE Len(h.messages) - 1].content
    /\ attempt = 0
    /\ graph_instance = TRUE
    /\ retrieved_context = <<>>
    /\ agent_messages = <<>>
    /\ final_response_metadata = EmptyMetadata
    /\ candidates = NoCandidates
    /\ lookups = <<>>
    /\ result = NoResult
    /\ raised = FALSE
    /\ failure = NoFailure
    /\ conv = NoRecord
    /\ clock = 30
    /\ LimiterIdle
    /\ StreamIdle
    /\ ExtIdle

NextSup ==
    /\ \/ SupervisorKeyword
       \/ \E d \in LLMDecisions : SupervisorLLM(d)
       \/ \E e \in Exceptions : SupervisorLLMFails(e)
    /\ UNCHANGED limiterVars
    /\ UNCHANGED extVars
    /\ UNCHANGED streamVars

(* One run of supervisor_node. *)
SpecSup == InitSup /\ [][NextSup]_vars

(* retriever_node and the rest of the turn after it, over every tool and    *)
(* every outcome of the call it wraps: the supervisor has routed the       *)
(* user's message to the retriever, whose agent makes the calls of one of  *)
(* ToolRuns.                                                               *)
MaxResults == 2

UnderlyingOutcomes(tool) ==
    {Underlying(k, 0) : k \in {"raise", "none", "malformed"}}
    \cup {Underlying("results", n) : n \in 1..MaxResults}
    \cup (IF tool = "search_tmdb_trending" THEN {Underlying("no_key", 0)} ELSE {})

Calls == UNION {{ToolCall(t, u) : u \in UnderlyingOutcomes(t)} : t \in RETRIEVER_TOOLS}

FailingCalls == {c \in Calls : c.outcome.kind \in {"raise", "malformed", "no_key"}}

ToolRuns ==
    {<<>>} \cup {<<c>> : c \in Calls}
    \cup {<<c, d>> : c \in {x \in FailingCalls : x.outcome.kind = "raise"},
                     d \in {x \in Calls : x.outcome.kind \in {"raise", "results"}
                                          /\ x.outcome.n <= 1}}

InitTools ==
    /\ pc = "retriever"
    /\ user_message = {"suggest"}
    /\ messages = <<HumanMessage(user_message, 1)>>
    /\ conv = NoRecord
    /\ attempt = 0
    /\ graph_instance = TRUE
    /\ next_step = "retriever"
    /\ user_intent = "search"
    /\ retrieved_context = <<>>
    /\ agent_messages = <<>>
    /\ final_response_metadata = EmptyMetadata
    /\ steps = 1
    /\ prev = "supervisor"
    /\ classifier_calls = 0
    /\ candidates = NoCandidates
    /\ lookups = <<>>
    /\ result = NoResult
    /\ raised = FALSE
    /\ failure = NoFailure
    /\ clock = 30
    /\ LimiterIdle
    /\ StreamIdle
    /\ ExtIdle

NextTools ==
    /\ \/ steps = 1 /\ \E r \in Replies : \E t \in ToolRuns : RetrieverStep(r, t)
       \/ steps > 1 /\ \E r \in Replies : \E t \in ToolCalls : RetrieverStep(r, t)
       \/ \E e \in Exceptions : RetrieverFails(e)
       \/ RecursionLimitHit
       \/ SupervisorKeyword
       \/ \E d \in LLMDecisions : SupervisorLLM(d)
       \/ \E e \in Exceptions : SupervisorLLMFails(e)
       \/ \E r \in Replies : ChatStep(r)
       \/ \E e \in Exceptions : ChatFails(e)
       \/ EnricherAny
       \/ ReturnResponse
    /\ UNCHANGED limiterVars
    /\ UNCHANGED extVars
    /\ UNCHANGED streamVars

SpecTools == InitTools /\ [][NextTools]_vars

(* One streamed turn of agent_chat_stream. *)
InitStream ==
    /\ TurnInit
    /\ user_message \in {{"suggest"}, {"what is"}, {"ok"}}
    /\ messages = <<>>
    /\ LimiterIdle
    /\ StreamIdle
    /\ ExtIdle

NextStream ==
    /\ \/ StreamConstructionFails
       \/ StreamStart
       \/ StreamStage
       \/ \E e \in Exceptions : StreamError(e)
       \/ StreamFinish
       \/ SendDone
    /\ UNCHANGED limiterVars
    /\ UNCHANGED extVars

SpecStream == InitStream /\ [][NextStream]_vars

(* enricher_node on its own, over every release date a search result can  *)
(* have: the supervisor has routed a recommending reply to the enricher.   *)
InitEnr ==
    /\ pc = "enricher"
    /\ user_message = {"suggest"}
    /\ \E r \in {{"recommend"}, {"here are", "genre"}} :
          messages = <<HumanMessage(user_message, 1), AIMessage(r, 1)>>
    /\ conv = NoRecord
    /\ attempt = 0
    /\ graph_instance = TRUE
    /\ next_step = "enricher"
    /\ user_intent = "enrich"
    /\ retrieved_context = <<>>
    /\ agent_messages = <<>>
    /\ final_response_metadata = EmptyMetadata
    /\ steps = 3
    /\ prev = "supervisor"
    /\ classifier_calls = 0
    /\ candidates = NoCandidates
    /\ lookups = <<>>
    /\ result = NoResult
    /\ raised = FALSE
    /\ failure = NoFailure
    /\ clock = 30
    /\ LimiterIdle
    /\ StreamIdle
    /\ ExtIdle

EnricherAnyDate ==
    \E x \in Extractions :
        \E om \in OutcomeSeqsOver(x.movies, AllReleaseDates) :
            \E ot \in OutcomeSeqsOver(x.tv_shows, AllReleaseDates) :
                EnricherStep(x, om, ot)

NextEnr ==
    /\ \/ EnricherAnyDate
       \/ ReturnResponse
    /\ UNCHANGED limiterVars
    /\ UNCHANGED extVars
    /\ UNCHANGED streamVars

SpecEnr == InitEnr /\ [][NextEnr]_vars

(* No turn is running: the state the memory functions are exercised in. *)
NoTurn ==
    /\ pc = "entry"
    /\ user_message = {"ok"}
    /\ attempt = 0
    /\ graph_instance = TRUE
    /\ messages = <<>>
    /\ next_step = None
    /\ user_intent = None
    /\ retrieved_context = <<>>
    /\ agent_messages = <<>>
    /\ final_response_metadata = EmptyMetadata
    /\ steps = 0
    /\ prev = "none"
    /\ classifier_calls = 0
    /\ candidates = NoCandidates
    /\ lookups = <<>>
    /\ result = NoResult
    /\ raised = FALSE
    /\ failure = NoFailure

graphVars == <<pc, user_message, classifier_calls, attempt, graph_instance, messages, next_step,
               user_intent, retrieved_context, agent_messages, final_response_metadata, steps,
               prev, candidates, lookups, result, raised, failure>>

InitMem ==
    /\ NoTurn
    /\ conv = NoRecord
    /\ clock = 0
    /\ LimiterIdle
    /\ StreamIdle
    /\ ExtIdle

NextMem ==
    /\ MemoryNext
    /\ UNCHANGED graphVars
    /\ UNCHANGED limiterVars
    /\ UNCHANGED streamVars
    /\ UNCHANGED socialVars
    /\ UNCHANGED threadVars
    /\ UNCHANGED retryVars
    /\ UNCHANGED tvVars

(* The session's record of _conversation_cache over many turns. *)
SpecMem == InitMem /\ [][NextMem]_vars

(* Everything but the tables of the social routes. *)
agentVars == <<turnVars, limiterVars, streamVars, memVars, threadVars, retryVars, tvVars>>

InitFollow == TurnParked /\ LimiterIdle /\ StreamIdle /\ ExtIdle

NextFollow ==
    /\ SocialNext({1}, Users)
    /\ UNCHANGED agentVars

(* toggle_follow requests served one after the other. *)
SpecFollow == InitFollow /\ [][NextFollow]_vars

(* The users that concurrent requests are about. *)
ConcurrentTargets == {"u3"}

NextFollowConcurrent ==
    /\ SocialNext(Requests, ConcurrentTargets)
    /\ UNCHANGED agentVars

(* toggle_follow requests served by concurrent workers. *)
SpecFollowConcurrent == InitFollow /\ [][NextFollowConcurrent]_vars

NextRLConcurrent ==
    /\ ThreadsNext(LimiterThreads)
    /\ UNCHANGED turnVars
    /\ UNCHANGED streamVars
    /\ UNCHANGED memVars
    /\ UNCHANGED socialVars
    /\ UNCHANGED retryVars
    /\ UNCHANGED tvVars

(* The per-session limiter under concurrent is_allowed calls. *)
SpecRLConcurrent == InitRL /\ [][NextRLConcurrent]_vars

InitRetry ==
    /\ TurnParked
    /\ LimiterIdle
    /\ StreamIdle
    /\ MemIdle
    /\ SocialIdle
    /\ ThreadsIdle
    /\ TvIdle
    /\ \E n \in 0..MaxRetries : \E d \in Delays : wrapper = WrapperAt(n, d)

NextRetry ==
    /\ RetryNext
    /\ UNCHANGED turnVars
    /\ UNCHANGED limiterVars
    /\ UNCHANGED streamVars
    /\ UNCHANGED memVars
    /\ UNCHANGED socialVars
    /\ UNCHANGED threadVars
    /\ UNCHANGED tvVars

(* One invocation of a function wrapped by retry_on_error. *)
SpecRetry == InitRetry /\ [][NextRetry]_vars

InitTv == TurnParked /\ LimiterIdle /\ StreamIdle /\ ExtIdle

NextTv ==
    /\ TvNext
    /\ UNCHANGED turnVars
    /\ UNCHANGED limiterVars
    /\ UNCHANGED streamVars
    /\ UNCHANGED memVars
    /\ UNCHANGED socialVars
    /\ UNCHANGED threadVars
    /\ UNCHANGED retryVars

(* One user's tv_tracking requests on one show, one after the other. *)
SpecTv == InitTv /\ [][NextTv]_vars

(***************************************************************************)
(* Claims                                                                  *)
(***************************************************************************)
TurnDone == pc = "done"

IsFallback(r) ==
    /\ "error" \in DOMAIN r
    /\ "reply" \in DOMAIN r
    /\ r.reply \in FallbackReplies

(* The turn used up its 15 super-steps and a node was still due. *)
CeilingTripped ==
    /\ steps >= 15
    /\ prev = "supervisor"
    /\ next_step \in {"retriever", "chat", "enricher"}

(* The number of steps the turn can still take: the attempts left, then    *)
(* the super-steps left, then the return.                                  *)
StepsLeft ==
    CASE pc = "done" -> 0
      [] pc = "end" -> 1
      [] pc \in Nodes -> 2 + (15 - steps)
      [] OTHER -> 18 + (max_retries - 1 - attempt)

(* C1: a turn runs at most 15 graph steps and then ends, whatever the      *)
(* supervisor decides: until run_agent_chat has returned a next step is    *)
(* always possible, every step brings the return closer, and a turn that   *)
(* trips the step ceiling returns a fallback reply with an error field.    *)
C1_TurnEndsWithinStepCeiling ==
    /\ [](steps <= 15)
    /\ [](TurnDone \/ ENABLED Next)
    /\ [][StepsLeft' < StepsLeft /\ StepsLeft' >= 0]_vars
    /\ []((TurnDone /\ CeilingTripped) => IsFallback(result))

C1_Witness_CeilingTripped ==
    TurnDone /\ CeilingTripped /\ steps = 15 /\ IsFallback(result)

GraphEdges ==
    {<<"START", "supervisor">>,
     <<"supervisor", "retriever">>, <<"supervisor", "chat">>,
     <<"supervisor", "enricher">>, <<"supervisor", "end">>,
     <<"retriever", "supervisor">>, <<"chat", "supervisor">>,
     <<"enricher", "end">>}

(* C2: the stage that is due always follows the stage that ran last along  *)
(* one of the edges START->supervisor, supervisor->{retriever, chat,       *)
(* enricher, END}, retriever->supervisor, chat->supervisor, enricher->END. *)
C2_OnlyGraphEdges ==
    pc \in Nodes \cup {"end"} => <<prev, pc>> \in GraphEdges

C2_Witness_RetrieverBackToSupervisor ==
    /\ pc = "end"
    /\ prev = "enricher"
    /\ retrieved_context # <<>>
    /\ steps = 4

(* C3: after supervisor_node ran on an assistant reply without any         *)
(* recommendation keyword, next_step is not "enricher".                    *)
C3_NoEnricherWithoutRecommendation ==
    (/\ prev = "supervisor"
     /\ Last(messages).role = "ai"
     /\ ~has_recommendations(Last(messages)))
    => next_step # "enricher"

(* The route the five rules give in their priority order, "llm" when none  *)
(* of them matches.                                                        *)
RuleRoute(m) ==
    IF m.role = "ai" /\ has_recommendations(m) /\ ~is_greeting_response(m)
    THEN "enricher"
    ELSE IF /\ m.role = "ai"
            /\ (is_explanation(m) \/ is_greeting_response(m))
            /\ ~has_recommendations(m)
    THEN "end"
    ELSE IF m.role = "human" /\ m.content \cap user_recommendation_keywords # {}
    THEN "retriever"
    ELSE IF m.role = "human" /\ m.content \cap user_question_keywords # {}
    THEN "chat"
    ELSE IF m.role = "human" /\ m.content \cap user_greeting_keywords # {}
    THEN "chat"
    ELSE "llm"

(* C4: every run of supervisor_node takes the route of the first matching  *)
(* rule without calling the classifier, and calls the classifier exactly   *)
(* when no rule matches.                                                   *)
C4_FirstMatchingRuleWins ==
    [][ (pc = "supervisor" /\ steps < recursion_limit) =>
          LET r == RuleRoute(Last(messages))
          IN  /\ r # "llm" => /\ next_step' = r
                              /\ classifier_calls' = classifier_calls
              /\ r = "llm" => classifier_calls' = classifier_calls + 1 ]_vars

C4_Witness_RecommendationBeatsQuestion ==
    /\ prev = "supervisor"
    /\ Last(messages).role = "human"
    /\ Last(messages).content \cap user_recommendation_keywords # {}
    /\ Last(messages).content \cap user_question_keywords # {}
    /\ next_step = "retriever"
    /\ classifier_calls = 0

Titled(media_list) == SelectSeq(media_list, LAMBDA c : c.title # "")

EnricherRan == prev = "enricher"

(* C5: after enricher_node the number of items equals the number of        *)
(* extracted candidates that have a title.                                 *)
C5_OneItemPerCandidate ==
    EnricherRan =>
        Len(final_response_metadata.movies) + Len(final_response_metadata.tv_shows)
        = Len(Titled(candidates.movies)) + Len(Titled(candidates.tv_shows))

LookedUp(c, media_type) ==
    \E i \in 1..Len(lookups) :
        lookups[i].title = c.title /\ lookups[i].media_type = media_type

(* C6: once the enricher stage is over every extracted candidate with a    *)
(* title, in the movie list and in the TV list, has been looked up, also   *)
(* after a lookup that raised; enricher_node returned and the turn goes on *)
(* to its normal result.                                                   *)
C6_LookupErrorDoesNotAbort ==
    EnricherRan =>
        /\ \A i \in 1..Len(candidates.movies) :
              candidates.movies[i].title # "" => LookedUp(candidates.movies[i], "movie")
        /\ \A i \in 1..Len(candidates.tv_shows) :
              candidates.tv_shows[i].title # "" => LookedUp(candidates.tv_shows[i], "tv")
        /\ pc \in {"end", "done"}
        /\ (TurnDone => ~raised /\ "error" \notin DOMAIN result)

C6_Witness_LookupsAfterRaise ==
    /\ EnricherRan
    /\ \E i, j \in 1..Len(lookups) :
          /\ i < j
          /\ lookups[i].got = "raise"
          /\ lookups[i].media_type = "movie"
          /\ lookups[j].media_type = "movie"
          /\ lookups[j].title # lookups[i].title
    /\ TurnDone

C6_Witness_TvAfterMovieRaise ==
    /\ EnricherRan
    /\ \E i, j \in 1..Len(lookups) :
          /\ i < j
          /\ lookups[i].got = "raise"
          /\ lookups[i].media_type = "movie"
          /\ lookups[j].media_type = "tv"

(* The requests of `id` recorded before the last call that were made less  *)
(* than one window before time t.                                          *)
InsideWindow(reqs, t, W) ==
    {i \in 1..Len(reqs) : t - reqs[i] < W}

LastBefore == last.before[last.limiter][last.id]

(* C7: with max_requests requests of an identifier inside the window,      *)
(* is_allowed refuses the next one and get_wait_time, called inside that   *)
(* window, is strictly positive; once the oldest recorded request is a     *)
(* full window old, is_allowed admits again.                               *)
C7_SlidingWindow ==
    LET N == max_requests(last.limiter)
        W == time_window(last.limiter)
    IN  /\ (/\ last.op = "is_allowed"
            /\ Cardinality(InsideWindow(LastBefore, last.at, W)) >= N)
           => ~last.allowed
        /\ (/\ last.op = "get_wait_time"
            /\ Cardinality(InsideWindow(LastBefore, last.at2, W)) >= N)
           => (~last.allowed /\ last.wait > 0)
        /\ (/\ last.op = "is_allowed"
            /\ LastBefore # <<>>
            /\ last.at - Min(LastBefore) >= W)
           => last.allowed

C7_Witness_RefusedThenAdmitted ==
    /\ last.op = "is_allowed"
    /\ last.allowed
    /\ Len(LastBefore) = max_requests(last.limiter)
    /\ last.at - Min(LastBefore) = time_window(last.limiter)

C7_Witness_PositiveWait ==
    /\ last.op = "get_wait_time"
    /\ ~last.allowed
    /\ last.wait > 0

(* C8: a pipeline stage is due only in a turn that check_rate_limit        *)
(* admitted for the session.                                               *)
C8_AdmittedBeforePipeline ==
    pc \in Nodes =>
        /\ last.op = "check_rate_limit"
        /\ last.id = session_id
        /\ last.allowed

(* C9: run_agent_chat never raises to its caller, and what it returns has  *)
(* a reply; a result with an error field has metadata.error_type.          *)
C9_NeverRaises ==
    /\ ~raised
    /\ TurnDone =>
          /\ "reply" \in DOMAIN result
          /\ "error" \in DOMAIN result => "error_type" \in DOMAIN result.metadata

(* C10: the fallback reply with the error field is returned only by the    *)
(* last attempt of retry_on_error.                                         *)
C10_FallbackOnlyAfterRetries ==
    (TurnDone /\ IsFallback(result)) => attempt = max_retries - 1

(* The reply of a result is not the empty string. *)
NonEmptyReply(r) ==
    /\ "reply" \in DOMAIN r
    /\ IF "error" \in DOMAIN r THEN r.reply # "" ELSE r.reply # {}

ToolFailed(m) == m.outcome.kind \in {"raise", "malformed"}

(* C11: a tool never raises to the retriever agent: whatever the call it   *)
(* wraps does, the agent gets a value of the tool's result shape, with an  *)
(* error key when the call raised; and the turn in which a tool failed     *)
(* returns a non-empty reply without raising.                              *)
C11_ToolErrorsAreValues ==
    /\ \A i \in 1..Len(agent_messages) :
          LET m == agent_messages[i]
          IN  /\ ~m.raised
              /\ m.shape = ResultShape(m.tool)
              /\ ToolFailed(m) => /\ Len(m.items) = 1
                                  /\ "error" \in m.items[1]
    /\ (TurnDone /\ \E i \in 1..Len(agent_messages) : ToolFailed(agent_messages[i]))
       => (~raised /\ NonEmptyReply(result))

C11_Witness_TwoToolsFail ==
    /\ TurnDone
    /\ Len(agent_messages) = 2
    /\ agent_messages[1].tool = "search_tmdb"
    /\ agent_messages[1].outcome.kind = "raise"
    /\ agent_messages[2].tool = "search_tmdb_trending"
    /\ agent_messages[2].outcome.kind = "raise"
    /\ "error" \notin DOMAIN result
    /\ result.reply = {"recommend"}

(* A step in which the structured-output call of supervisor_node raised. *)
ClassifierFailed ==
    /\ failure = NoFailure
    /\ failure'.stage = "supervisor"

(* C12: when the structured-output call of supervisor_node fails, next_step *)
(* and user_intent keep their values, the turn is over with the fallback   *)
(* result that carries an error field and an error type, and no stage runs *)
(* once the turn is over.                                                  *)
C12_ClassifierFailureEndsTurn ==
    /\ [][ClassifierFailed =>
            /\ next_step' = next_step
            /\ user_intent' = user_intent
            /\ messages' = messages
            /\ pc' = "done"
            /\ ~raised'
            /\ IsFallback(result')
            /\ "error_type" \in DOMAIN result'.metadata]_vars
    /\ [](TurnDone => ~ENABLED Next)

C12_Witness_FailureAfterChat ==
    /\ TurnDone
    /\ IsFallback(result)
    /\ failure.stage = "supervisor"
    /\ classifier_calls = 2
    /\ steps = 2
    /\ prev = "chat"
    /\ next_step = "chat"
    /\ Last(messages).role = "ai"

IsPrefix(a, b) == Len(a) <= Len(b) /\ SubSeq(b, 1, Len(a)) = a

(* A step in which the stage at pc ran to its end. *)
StageCompleted == pc \in Nodes /\ steps' = steps + 1

(* C13: every step of a turn leaves the earlier messages in place as a     *)
(* prefix; a completed supervisor or enricher stage leaves messages        *)
(* unchanged, a completed retriever or chat stage appends exactly one      *)
(* assistant message.                                                      *)
C13_MessagesAppendOnly ==
    [][ /\ IsPrefix(messages, messages')
        /\ (StageCompleted /\ pc \in {"supervisor", "enricher"})
           => messages' = messages
        /\ (StageCompleted /\ pc \in {"retriever", "chat"})
           => /\ Len(messages') = Len(messages) + 1
              /\ Last(messages').role = "ai" ]_vars

C13_Witness_TwoRepliesThenEnricher ==
    /\ TurnDone
    /\ prev = "enricher"
    /\ Len(messages) = 3
    /\ messages[1].role = "human"
    /\ messages[2].role = "ai"
    /\ messages[3].role = "ai"
    /\ retrieved_context # <<>>

(* C14: a completed chat_node run appends exactly one assistant message    *)
(* and leaves retrieved_context, final_response_metadata, next_step and    *)
(* user_intent as they were; it makes no tool call and no metadata lookup. *)
C14_ChatNodeFrame ==
    [][ (pc = "chat" /\ steps' = steps + 1) =>
          /\ Len(messages') = Len(messages) + 1
          /\ SubSeq(messages', 1, Len(messages)) = messages
          /\ Last(messages').role = "ai"
          /\ retrieved_context' = retrieved_context
          /\ final_response_metadata' = final_response_metadata
          /\ next_step' = next_step
          /\ user_intent' = user_intent
          /\ agent_messages' = agent_messages
          /\ lookups' = lookups ]_vars

C14_Witness_ChatAfterRetriever ==
    /\ prev = "chat"
    /\ pc = "supervisor"
    /\ retrieved_context # <<>>
    /\ agent_messages # <<>>
    /\ next_step = "chat"
    /\ user_intent = "chat"
    /\ Len(messages) = 3

(* C15: a completed supervisor_node run, on a keyword branch or on the     *)
(* classifier branch, changes next_step and user_intent only: messages,    *)
(* retrieved_context and final_response_metadata are the same after it,    *)
(* and it makes no tool call and no metadata lookup.                       *)
C15_SupervisorNodeFrame ==
    [][ (pc = "supervisor" /\ steps' = steps + 1) =>
          /\ messages' = messages
          /\ retrieved_context' = retrieved_context
          /\ final_response_metadata' = final_response_metadata
          /\ agent_messages' = agent_messages
          /\ lookups' = lookups
          /\ candidates' = candidates ]_vars

C15_Witness_KeywordBranchAfterRetriever ==
    /\ prev = "supervisor"
    /\ steps = 3
    /\ classifier_calls = 0
    /\ next_step = "enricher"
    /\ user_intent = "enrich"
    /\ retrieved_context # <<>>
    /\ Last(messages).role = "ai"

C15_Witness_ClassifierBranchAfterRetriever ==
    /\ prev = "supervisor"
    /\ steps = 3
    /\ classifier_calls = 1
    /\ next_step = "chat"
    /\ retrieved_context # <<>>
    /\ Last(messages).role = "ai"

StreamClosed == pc = "closed"

IsStageEvent(ev) == "node" \in DOMAIN ev /\ ev.node \in Nodes

DoneEvents == {i \in 1..Len(events) : events[i] = DoneEvent}

(* Every completed stage sends exactly one event, for that stage, at the   *)
(* end of the events sent so far, and no other step sends a stage event.   *)
StreamOrdered ==
    [][ /\ IsPrefix(events, events')
        /\ Len(events') <= Len(events) + 1
        /\ StageCompleted =>
              /\ Len(events') = Len(events) + 1
              /\ IsStageEvent(Last(events'))
              /\ Last(events').node = pc
        /\ (Len(events') = Len(events) + 1 /\ IsStageEvent(Last(events')))
           => StageCompleted ]_vars

(* C16: the streamed turn sends one event per executed stage, in the order *)
(* the stages run, and when the stream is over exactly one "done" event    *)
(* was sent and it is the last event, also after an error event.           *)
C16_StreamOrderedAndTerminated ==
    /\ StreamOrdered
    /\ [](StreamClosed => /\ Cardinality(DoneEvents) = 1
                          /\ Last(events) = DoneEvent)

(* A finished turn whose user message has an informational keyword and no  *)
(* recommendation keyword, and whose only reply has explanation vocabulary *)
(* and no recommendation vocabulary.                                       *)
ExplanationTurn ==
    /\ TurnDone
    /\ "error" \notin DOMAIN result
    /\ user_message \cap user_question_keywords # {}
    /\ user_message \cap user_recommendation_keywords = {}
    /\ Len(messages) >= 2
    /\ messages[Len(messages) - 1] = HumanMessage(user_message, 1)
    /\ Last(messages).role = "ai"
    /\ is_explanation(Last(messages))
    /\ ~has_recommendations(Last(messages))

(* The stages were supervisor, chat, supervisor and then END. *)
ExplanationFlow ==
    /\ steps = 3
    /\ prev = "supervisor"
    /\ next_step = "end"
    /\ classifier_calls = 0
    /\ retrieved_context = <<>>
    /\ lookups = <<>>
    /\ final_response_metadata = EmptyMetadata

(* C17: such a turn ran supervisor, chat, supervisor, END without the      *)
(* enricher, and its result has movies and tv_shows, both empty sequences. *)
C17_ExplanationTurnHasEmptyLists ==
    ExplanationTurn =>
        /\ ExplanationFlow
        /\ "movies" \in DOMAIN result
        /\ "tv_shows" \in DOMAIN result
        /\ result.movies = <<>>
        /\ result.tv_shows = <<>>

(* The positions in lookups of the searches made for candidate c. *)
LookupsOf(c, media_type) ==
    {i \in 1..Len(lookups) :
        lookups[i].title = c.title /\ lookups[i].media_type = media_type}

MinOf(S) == CHOOSE i \in S : \A j \in S : i <= j
MaxOf(S) == CHOOSE i \in S : \A j \in S : i >= j

(* The lookups of one candidate: one or two; the first with the            *)
(* candidate's year; a second exactly when the first found nothing and the *)
(* candidate has a year, and then without a year.                          *)
LookupRule(c, media_type) ==
    LET L == LookupsOf(c, media_type)
        first == lookups[MinOf(L)]
        second == lookups[MaxOf(L)]
    IN  /\ Cardinality(L) \in {1, 2}
        /\ first.year = c.year
        /\ Cardinality(L) = 2 <=> (first.got = "empty" /\ c.year # 0)
        /\ Cardinality(L) = 2 => second.year = 0
        /\ (c.year = 0 \/ first.got = "hit") => Cardinality(L) = 1

(* C18: after enricher_node every candidate with a title was looked up     *)
(* once or twice, never three times: twice exactly when its first lookup   *)
(* returned no results and it has a year, the second lookup carrying no    *)
(* year; once when it has no year or its first lookup had results.  No     *)
(* other lookup was made.                                                  *)
C18_AtMostTwoLookups ==
    EnricherRan =>
        /\ \A i \in 1..Len(candidates.movies) :
              candidates.movies[i].title # ""
              => LookupRule(candidates.movies[i], "movie")
        /\ \A i \in 1..Len(candidates.tv_shows) :
              candidates.tv_shows[i].title # ""
              => LookupRule(candidates.tv_shows[i], "tv")
        /\ Len(lookups) <= 2 * (Len(Titled(candidates.movies))
                                + Len(Titled(candidates.tv_shows)))

C18_Witness_OneThenTwoLookups ==
    /\ EnricherRan
    /\ Len(lookups) = 3
    /\ lookups[1].title = "Heat" /\ lookups[1].got = "empty"
    /\ lookups[2].title = "Tenet" /\ lookups[2].year = 2020 /\ lookups[2].got = "empty"
    /\ lookups[3].title = "Tenet" /\ lookups[3].year = 0 /\ lookups[3].got = "hit"

(* The searches of one kind that found a result, and the items built from  *)
(* a result, both in the order of the candidates.                          *)
Hits(media_type) ==
    SelectSeq(lookups, LAMBDA l : l.media_type = media_type /\ l.got = "hit")

Matches(items) == SelectSeq(items, LAMBDA it : it.tmdb_link # "#")

(* The annotation the rule gives for a release date. *)
ExpectedStatus(d) ==
    IF d # NoDate /\ d > Today THEN " (UPCOMING)"
    ELSE IF d # NoDate /\ Today - d <= RecentWindow THEN " (RECENT)"
    ELSE ""

StatusRule(items, media_type) ==
    /\ Len(Matches(items)) = Len(Hits(media_type))
    /\ \A i \in 1..Len(Matches(items)) :
          LET it == Matches(items)[i]
              d == Hits(media_type)[i].release
          IN  /\ it.release_status \in {" (UPCOMING)", " (RECENT)", ""}
              /\ it.release_status = ExpectedStatus(d)
              /\ d = NoDate => (it.release_status = "" /\ it.year = "Unknown")
              /\ d # NoDate => it.year # "Unknown"

(* C19: every item built from a search result is annotated " (UPCOMING)"   *)
(* when the result's release date is strictly in the future, otherwise     *)
(* " (RECENT)" when it is inside the recent-release window, otherwise "";  *)
(* a result without a release date gives "" and the year "Unknown", and    *)
(* the item is there.                                                      *)
C19_ReleaseStatusRule ==
    EnricherRan =>
        /\ StatusRule(final_response_metadata.movies, "movie")
        /\ StatusRule(final_response_metadata.tv_shows, "tv")

C19_Witness_NoDateAndUpcoming ==
    /\ EnricherRan
    /\ TurnDone
    /\ Len(final_response_metadata.movies) = 1
    /\ final_response_metadata.movies[1].release_status = ""
    /\ final_response_metadata.movies[1].year = "Unknown"
    /\ Len(final_response_metadata.tv_shows) = 1
    /\ final_response_metadata.tv_shows[1].release_status = " (UPCOMING)"
    /\ Hits("tv")[1].release = Today + 1

C19_Witness_RecentAtWindowEdge ==
    /\ EnricherRan
    /\ Len(Hits("movie")) = 2
    /\ Hits("movie")[1].release = Today - RecentWindow
    /\ final_response_metadata.movies[1].release_status = " (RECENT)"
    /\ Hits("movie")[2].release = Today - RecentWindow - 1
    /\ final_response_metadata.movies[2].release_status = ""

(* The assistant replied in this turn and its reply is the last message.   *)
RepliedThisTurn ==
    /\ messages # <<>>
    /\ Last(messages).role = "ai"
    /\ Last(messages).turn = 1

ExtractionFailed == failure.stage = "enricher"

ExtractionFoundNothing ==
    /\ EnricherRan
    /\ failure = NoFailure
    /\ candidates = NoCandidates

C20_Witness_NoCandidates ==
    /\ TurnDone
    /\ RepliedThisTurn
    /\ ExtractionFoundNothing
    /\ "error" \notin DOMAIN result

(* The last call was a lookup that returned the record. *)
LookupReturned == mem.op = "get" /\ mem.returned

(* The last call was a lookup that returned None. *)
LookupReturnedNone == mem.op = "get" /\ ~mem.returned

(* C21: get_conversation_summary returns a record only when its last       *)
(* successful access is at most 24 hours back; when it returns None no     *)
(* record is left in the cache; and a record in the cache has the time of  *)
(* the latest successful lookup or update as last_accessed.                *)
C21_RecordExpiresAfterTtl ==
    /\ LookupReturned => /\ mem.prior # NoAccess
                         /\ mem.at - mem.prior <= cache_ttl
    /\ LookupReturnedNone => ~conv.exists
    /\ conv.exists => conv.last_accessed = mem.access

(* A lookup exactly 24 hours after the last access returned the record,    *)
(* which was itself kept alive by an earlier lookup.                       *)
C21_Witness_ReturnedAtTtl ==
    /\ LookupReturned
    /\ mem.at - mem.prior = cache_ttl
    /\ conv.last_accessed = mem.at
    /\ mem.at - conv.created_at > cache_ttl

(* A lookup more than 24 hours after the last access removed the record. *)
C21_Witness_ExpiredRemoved ==
    /\ LookupReturnedNone
    /\ mem.prior # NoAccess
    /\ mem.at - mem.prior > cache_ttl

(* The last call was the update of a turn, made on a record whose last     *)
(* access was more than 24 hours back.                                     *)
UpdatedExpired(path) ==
    /\ mem.op = path
    /\ mem.prior # NoAccess
    /\ mem.at - mem.prior > cache_ttl

(* The record is one created by the update: created at the update's time,  *)
(* with nothing of the earlier record's metadata.                          *)
FreshRecord ==
    /\ conv.created_at = mem.at
    /\ mem.op = "streaming" => conv.metadata = ConversationMemory(mem.at).metadata

BlockingPathStartsFresh == UpdatedExpired("blocking") => FreshRecord

(* C30: an update made by a turn on an expired record, on the blocking or  *)
(* on the streaming path, leaves a fresh record (created at the update,    *)
(* metadata of the expired record gone), never the expired one revived.    *)
C30_ExpiredRecordNeverRevived ==
    \A path \in {"blocking", "streaming"} : UpdatedExpired(path) => FreshRecord

(* a actively follows b in the user_follow table f. *)
Following(f, a, b) == first_row(f[<<a, b>>], TRUE) # 0

(* This step answers a toggle_follow of a user on another existing user. *)
ToggleAnswered ==
    /\ tlast' # tlast
    /\ tlast'.status # 0
    /\ tlast'.target \in Users \ {tlast'.follower}

(* The toggle answered before this one was a toggle of the same pair. *)
SamePairAgain ==
    /\ tlast.status = 200
    /\ tlast.follower = tlast'.follower
    /\ tlast.target = tlast'.target

(* C22: a toggle_follow by A on another existing user B succeeds and       *)
(* inverts whether A actively follows B, reporting the new status as       *)
(* is_following; a follow leaves exactly one row for the pair (created or  *)
(* reactivated); and the second of two consecutive toggles of a pair puts  *)
(* the follow status and every counter back to what they were before the   *)
(* first.                                                                  *)
C22_ToggleFollowAlternates ==
    [][ToggleAnswered =>
          LET a == tlast'.follower
              b == tlast'.target
              was == Following(follows, a, b)
          IN  /\ tlast'.status = 200
              /\ tlast'.is_following = ~was
              /\ Following(follows', a, b) = ~was
              /\ Len(follows'[<<a, b>>]) = 1
              /\ SamePairAgain =>
                    /\ Following(follows', a, b) = Following(tlast.before.follows, a, b)
                    /\ counts' = tlast.before.counts]_vars

(* A third toggle of a pair reactivated the row that the second had        *)
(* deactivated, and the follower follows someone else as well.             *)
C22_Witness_Reactivated ==
    /\ tlast.status = 200
    /\ tlast.is_following
    /\ tlast.before.follows[<<tlast.follower, tlast.target>>] = <<FALSE>>
    /\ follows[<<tlast.follower, tlast.target>>] = <<TRUE>>
    /\ counts[tlast.follower].following_count = 2
    /\ counts[tlast.target].followers_count = 1

(* The number of active rows of one (follower, following) pair. *)
ActiveRows(a, b) == Cardinality({i \in 1..Len(follows[<<a, b>>]) : follows[<<a, b>>][i]})

RECURSIVE SumOver(_, _)
SumOver(S, f) ==
    IF S = {} THEN 0
    ELSE LET x == CHOOSE y \in S : TRUE IN f[x] + SumOver(S \ {x}, f)

CountersMatchRows ==
    \A u \in Users :
        /\ counts[u].followers_count = SumOver(Users, [a \in Users |-> ActiveRows(a, u)])
        /\ counts[u].following_count = SumOver(Users, [b \in Users |-> ActiveRows(u, b)])

OneRowPerPair == \A p \in Pairs : Len(follows[p]) <= 1

NoSelfFollowRow == \A u \in Users : follows[<<u, u>>] = <<>>

(* C29: whatever the interleaving of toggle_follow requests, every user's  *)
(* followers_count and following_count equal the numbers of active rows    *)
(* that target them and that they own, no pair has two rows and no row is  *)
(* a self-follow.                                                          *)
C29_CountersMatchRowsUnderConcurrency ==
    /\ CountersMatchRows
    /\ OneRowPerPair
    /\ NoSelfFollowRow

IsSuffix(a, b) ==
    /\ Len(a) <= Len(b)
    /\ \A i \in 1..Len(a) : a[i] = b[Len(b) - Len(a) + i]

(* The last call recorded no request: each list of timestamps is what was  *)
(* there before the call, less the expired ones at its front.              *)
NothingRecorded ==
    \A l \in Limiters : \A id \in Identifiers(l) :
        IsSuffix(requests[l][id], last.before[l][id])

Rejected == last.op = "check_rate_limit" /\ ~last.allowed

(* C24: a check_rate_limit call that answers not-allowed has recorded no   *)
(* request in the global or in the per-session limiter, and a              *)
(* get_wait_time call never records one.                                   *)
C24_RejectedConsumesNoCapacity ==
    /\ Rejected => NothingRecorded
    /\ last.op = "get_wait_time" => NothingRecorded

(* The calls admitted with a clock reading in the window that ends at t. *)
AdmittedInWindow(t, W) ==
    Cardinality({i \in 1..Len(admitted) : admitted[i] > t - W /\ admitted[i] <= t})

(* C23: under concurrent is_allowed calls for one identifier, no window of *)
(* time_window seconds holds more than max_requests admitted requests.     *)
C23_ConcurrentCallsStayWithinLimit ==
    \A t \in 0..MaxTime :
        AdmittedInWindow(t, time_window("user")) <= max_requests("user")

(* The position of the message run_agent_chat takes the reply from: the    *)
(* last one with content, 0 when there is none.                            *)
ReplySource ==
    LET with == {i \in 1..Len(messages) : messages[i].content # {}}
    IN  IF with = {} THEN 0 ELSE MaxOf(with)

SuccessfulTurn == TurnDone /\ ~raised /\ "error" \notin DOMAIN result

FailedCalls == {i \in 1..Len(wrapper.calls) : wrapper.calls[i] \in FuncErrors}

(* C26: the wrapper calls func at most max_retries times; a call that      *)
(* returns is the last call and its value is what the wrapper returns;     *)
(* the wrapper sleeps only between two calls, never after the last failed  *)
(* attempt; and when max_retries calls have failed it raises the exception *)
(* of the last of them.                                                    *)
C26_RetryCallsAtMostMaxRetries ==
    /\ Len(wrapper.calls) <= wrapper.max_retries
    /\ \A i \in 1..Len(wrapper.calls) :
          wrapper.calls[i] \in FuncValues =>
              /\ i = Len(wrapper.calls)
              /\ wrapper.status = "returned"
              /\ wrapper.value = wrapper.calls[i]
    /\ Len(wrapper.sleeps) <= Cardinality(FailedCalls)
    /\ wrapper.status # "running" => Len(wrapper.sleeps) = Len(wrapper.calls) - 1
                                     \/ wrapper.calls = <<>>
    /\ (wrapper.status = "raised" /\ wrapper.max_retries > 0) =>
          /\ Len(wrapper.calls) = wrapper.max_retries
          /\ FailedCalls = 1..wrapper.max_retries
          /\ wrapper.value = wrapper.calls[wrapper.max_retries]

(* Three attempts failed with different exceptions and the last one was    *)
(* raised after two sleeps.                                                *)
C26_Witness_AllAttemptsFailed ==
    /\ wrapper.status = "raised"
    /\ wrapper.max_retries = 3
    /\ wrapper.calls = <<"e1", "e1", "e2">>
    /\ wrapper.value = "e2"
    /\ Len(wrapper.sleeps) = 2

(* The third call returned after two failed attempts. *)
C26_Witness_SuccessAfterFailures ==
    /\ wrapper.status = "returned"
    /\ wrapper.max_retries = MaxRetries
    /\ wrapper.calls = <<"e1", "e2", "v1">>
    /\ Len(wrapper.sleeps) = 2

(* C27: the sleeps of one invocation form a geometric sequence that starts *)
(* at delay and grows: each sleep is the one before times a constant       *)
(* multiplier greater than 1.                                              *)
C27_BackoffIsExponential ==
    LET w == wrapper.sleeps
    IN  /\ Len(w) >= 1 => w[1] = wrapper.delay
        /\ Len(w) >= 2 => w[2] > w[1]
        /\ \A k \in 2..(Len(w) - 1) : w[k + 1] * w[k - 1] = w[k] * w[k]

(* What holds instead: the k-th sleep is k times delay. *)
BackoffIsLinear ==
    \A k \in 1..Len(wrapper.sleeps) : wrapper.sleeps[k] = k * wrapper.delay

(* The user's rows for the show that are not rewatches. *)
FirstWatches == {e \in Episodes : watches[e] = TVEpisodeWatch(FALSE)}

(* C28: whatever mark, update and unmark requests the user has made on the *)
(* show, the progress row's watched_episodes is the number of the user's   *)
(* non-rewatch rows for the show and is not negative.                      *)
C28_WatchedEpisodesMatchesRows ==
    progress.exists =>
        /\ progress.watched_episodes = Cardinality(FirstWatches)
        /\ progress.watched_episodes >= 0

WatchedEpisodesNotNegative == progress.exists => progress.watched_episodes >= 0


====
